---- MODULE Spec2Model ----
(***************************************************************************)
(* The trace pipeline of the agent: HTTPReceiver (handlers and the         *)
(* processTraces goroutines), the raw-trace channel, the Agent's workers   *)
(* running Process / sample / runSamplers, and the two downstream          *)
(* channels (sampled spans, Concentrator input); the receiver loop with    *)
(* its watchdog and its 10 s flush; cancellation and shutdown; and the     *)
(* DockerUtil's container listing with its caches.                         *)
(***************************************************************************)
EXTENDS Integers, Sequences, FiniteSets, TLC

\* ------------------------------------------------------------- bounds
MaxReqs == 2        \* HTTP requests that arrive in one run
MaxTraces == 1      \* traces one decoded payload holds at most
NumWorkers == 2     \* runtime.NumCPU() workers
RawTraceCap == 1    \* capacity of rawTraceChan (5000 in NewAgent), scaled down
SpansOutCap == 1    \* capacity of spansOut (1000 in NewAgent), scaled down
ConcInCap == 1      \* capacity of Concentrator.In, scaled down
MaxPayload == 2     \* traces of the one payload PayloadSpec follows (>= MaxTraces)
MaxSpans == 3       \* spans of the v01 payload given to tracesFromSpans
NumCallers == 2     \* goroutines that call the DockerUtil at the same time
MaxNow == 1         \* clock ticks (time.Now) followed after the DockerUtil is set up

Reqs == 1..MaxReqs
Callers == 1..NumCallers
ContainerIDs == {"a", "b"}
Workers == 1..NumWorkers
TraceIds == Reqs \X (1..MaxPayload)

\* ------------------------------------------------------------- values
Versions == {"v01", "v02", "v03", "v04"}
MediaTypes == {"application/json", "application/msgpack"}

StatusOK == 200
StatusTooManyRequests == 429
StatusBadRequest == 400
StatusUnsupportedMediaType == 415

PriorityValues == {-1, 0, 1, 2}
SpanCounts == {1, 2}                    \* len(trace) of a normalized trace

\* Rates are exact rationals <<numerator, denominator>> in lowest terms.
RECURSIVE GCD(_, _)
GCD(a, b) == IF b = 0 THEN a ELSE GCD(b, a % b)
Norm(n, d) == LET g == GCD(n, d) IN <<n \div g, d \div g>>
One == <<1, 1>>
Half == <<1, 2>>
RMul(x, y) == Norm(x[1] * y[1], x[2] * y[2])
RAdd(x, y) == Norm(x[1] * y[2] + y[1] * x[2], x[2] * y[2])
RSub(x, y) == Norm(x[1] * y[2] - y[1] * x[2], x[2] * y[2])
Zero == <<0, 1>>

CounterNames == {"TracesReceived", "TracesBytes", "PayloadAccepted", "DecodingError",
                 "SpansReceived", "SpansDropped", "TracesFiltered", "SpansFiltered",
                 "TracesPriorityNone", "TracesPriorityNeg", "TracesPriority0",
                 "TracesPriority1", "TracesPriority2", "EventsExtracted", "EventsSampled"}
\* r.tagStats(req) keys the counters by the request's headers; Process uses info.Tags{}.
Tags == {"client", "empty"}

VARIABLES
    rateLimiterResponse,  \* HTTPReceiver.rateLimiterResponse
    req,                  \* per request: the handler and its processTraces goroutine
    Out,                  \* HTTPReceiver.Out, the raw-trace channel
    wk,                   \* per worker: Agent.work / Process position and locals
    spansOut,             \* Agent.spansOut
    concIn,               \* Concentrator.In
    Stats,                \* HTTPReceiver.Stats: Tags -> TagStats counters
    refused,              \* metric datadog.trace_agent.receiver.payload_refused
    recv,                 \* per trace: how many times a worker received it from Out
    conf,                 \* config.AgentConfig: MaxMemory, MaxCPU, ReceiverSocket
    proc,                 \* the process: started, running, exited by killProcess
    targetRate,           \* RateLimiter target rate (SetTargetRate)
    wd,                   \* locals of the last HTTPReceiver.watchdog call
    sd,                   \* shutdown: ctx, Agent.loop / HTTPReceiver.Stop position
    grp,                  \* one call of tracesFromSpans: argument, result, heap
    fl,                   \* HTTPReceiver.loop: position in the 10 s flush, accStats
    dk                    \* DockerUtil, the Docker daemon it queries, and its callers

\* What the trace pipeline's own steps leave alone.
env == <<conf, proc, targetRate, wd, sd, grp, fl, dk>>
vars == <<rateLimiterResponse, req, Out, wk, spansOut, concIn, Stats, refused, recv, env>>

\* ------------------------------------------------------------- receiver helpers
NoResp == [status |-> 0, body |-> ""]

\* http.ResponseWriter.WriteHeader: the first status written stands.
WriteHeader(w, status) == IF w.status = 0 THEN [w EXCEPT !.status = status] ELSE w
\* Writing a body sends an implicit 200 when no status was written yet.
WriteBody(w, body) == [WriteHeader(w, StatusOK) EXCEPT !.body = body]

httpOK(w) == WriteBody(WriteHeader(w, StatusOK), "OK")
httpRateByService(w) == WriteBody(w, "rate_by_service")
httpDecodingError(w) == WriteBody(WriteHeader(w, StatusBadRequest), "error")
httpFormatError(w) == WriteBody(WriteHeader(w, StatusUnsupportedMediaType), "error")

replyOK(v, w) == IF v \in {"v01", "v02", "v03"} THEN httpOK(w) ELSE httpRateByService(w)

AddCounter(st, tag, name, n) == [st EXCEPT ![tag][name] = @ + n]

\* ------------------------------------------------------------- trace metadata
\* The root span's Metrics map is a function whose domain is the set of keys present.
KeySamplingPriority == "_sampling_priority_v1"
KeySamplingRateGlobal == "_sample_rate"
KeySamplingRateClient == "_dd1.sr.rcusr"
KeySamplingRatePreSampler == "_dd1.sr.rapre"

NoMetrics == [k \in {} |-> 0]
setMetric(m, k, val) == (k :> val) @@ m

\* sampler.GetSamplingPriority: the value and whether the key is present.
GetSamplingPriority(root) ==
    IF KeySamplingPriority \in DOMAIN root
    THEN <<root[KeySamplingPriority], TRUE>> ELSE <<0, FALSE>>
\* sampler.GetGlobalRate: 1 when the key is absent.
GetGlobalRate(root) ==
    IF KeySamplingRateGlobal \in DOMAIN root THEN root[KeySamplingRateGlobal] ELSE One
SetClientRate(root, rate) == setMetric(root, KeySamplingRateClient, rate)
SetPreSampleRate(root, rate) == setMetric(root, KeySamplingRatePreSampler, rate)
\* sampler.AddGlobalRate multiplies the global rate by rate.
AddGlobalRate(root, rate) ==
    setMetric(root, KeySamplingRateGlobal, RMul(GetGlobalRate(root), rate))
\* sampler.CombineRates of two independent samplers.
CombineRates(r1, r2) == RSub(RAdd(r1, r2), RMul(r1, r2))

\* The Metrics a root can carry when its trace reaches Process.
RootInputs ==
    { p @@ g : p \in {NoMetrics} \cup {(KeySamplingPriority :> x) : x \in PriorityValues},
               g \in {NoMetrics, (KeySamplingRateGlobal :> Half)} }
\* What a sampler's Add can return: (sampled, rate).
SamplerResults == {<<TRUE, Half>>, <<FALSE, Half>>, <<TRUE, One>>}
\* What EventProcessor.Process can return: (len(events), numExtracted).
EventResults == {<<0, 0>>, <<0, 1>>, <<1, 1>>}
\* What RateLimiter.RealRate can return.
RealRates == {Half, One}

\* Operations of Process that write to the trace's spans, and its channel sends.
WriteOps == {"Obfuscate", "Truncate", "Replace", "SetClientRate", "SetPreSampleRate",
             "AddGlobalRate", "ComputeTopLevel", "SetSublayersOnSpan"}
SendOps == {"spansOut<-", "Concentrator.In<-"}
SamplerOps == {"PrioritySampler.Add", "ErrorsScoreSampler.Add", "ScoreSampler.Add"}

\* The answers a call of Process got from outside, before any was read.
NoInput == [root |-> NoMetrics, err |-> FALSE, allowed |-> TRUE, rl |-> One,
            resP |-> <<FALSE, One>>, resS |-> <<FALSE, One>>, ev |-> <<0, 0>>]

\* A worker between traces.
IdleWorker == [pc |-> "idle", id |-> <<0, 0>>, spans |-> 0, root |-> NoMetrics,
               err |-> FALSE, priority |-> 0, hasPriority |-> FALSE,
               clientSampleRate |-> One, rateLimiterRate |-> One,
               sampled |-> FALSE, rate |-> Zero,
               ss |-> [trace |-> FALSE, events |-> 0],
               sampledPriority |-> FALSE, sampledScore |-> FALSE,
               filtered |-> FALSE, log |-> <<>>, refs |-> {},
               in |-> NoInput]

IdleReq == [pc |-> "new", v |-> "", mt |-> "", h |-> "", body |-> "unread",
            n |-> 0, i |-> 0, cur |-> 0,
            w |-> NoResp, returned |-> FALSE, full |-> FALSE]

\* A started process with no resource limit configured, no cancellation raised, and
\* no v01 payload being decoded.
NoGroup == [pc |-> "idle", spans |-> <<>>, perIteration |-> FALSE, traces |-> <<>>,
            heap |-> <<>>]
NoTick == [mem |-> 0, cpu |-> 0, realRate |-> One, rateMem |-> One, rateCPU |-> One]
NoLimits == [MaxMemory |-> 0, MaxCPU |-> 0, ReceiverSocket |-> FALSE]
Running == [pc |-> "running", killed |-> "", log |-> <<>>]
NoShutdown == [ctx |-> "live", loop |-> "select", stop |-> "", exit |-> "open",
               server |-> "serving", outClosed |-> FALSE, stopped |-> {}]

\* info.NewReceiverStats: every counter 0.
ZeroStats == [t \in Tags |-> [c \in CounterNames |-> 0]]
\* HTTPReceiver.loop waiting in its select with an empty accStats; acc and published
\* are what the last flush added to accStats and handed to Publish.
NoFlush == [pc |-> "select", accStats |-> ZeroStats, acc |-> ZeroStats,
            published |-> ZeroStats]

\* A caller of the DockerUtil that is in no call.
NoCfg == [nil |-> TRUE, IncludeExited |-> FALSE, FlagExcluded |-> FALSE]
IdleCall == [pc |-> "idle", via |-> "", cfg |-> NoCfg, cList |-> <<>>, i |-> 0,
             absent |-> FALSE, ret |-> <<>>, err |-> ""]
\* A DockerUtil that was just set up (empty caches, mutex free, lastInvalidate = now)
\* on a host with no container.
NoDocker == [CollectNetwork |-> FALSE, world |-> [id \in ContainerIDs |-> "gone"],
             networkMappings |-> {}, imageNameBySha |-> {}, lock |-> 0,
             now |-> 0, lastInvalidate |-> 0,
             call |-> [c \in Callers |-> IdleCall]]

EnvInit ==
    /\ conf = NoLimits
    /\ proc = Running
    /\ targetRate = One
    /\ wd = NoTick
    /\ sd = NoShutdown
    /\ grp = NoGroup
    /\ fl = NoFlush
    /\ dk = NoDocker

Init ==
    /\ rateLimiterResponse \in {StatusOK, StatusTooManyRequests}
    /\ req = [r \in Reqs |-> IdleReq]
    /\ Out = <<>>
    /\ wk = [w \in Workers |-> IdleWorker]
    /\ spansOut = <<>>
    /\ concIn = <<>>
    /\ Stats = [t \in Tags |-> [c \in CounterNames |-> 0]]
    /\ refused = 0
    /\ recv = [t \in TraceIds |-> 0]
    /\ EnvInit

\* ------------------------------------------------------------- HTTPReceiver
\* traceCount(req): the X-Datadog-Trace-Count header, 0 when absent ("") or malformed.
HeaderValues == {"", "x", "1"}
\* strconv.Atoi: the number and whether parsing failed.
Atoi(str) == CASE str = "0" -> <<0, FALSE>>
               [] str = "1" -> <<1, FALSE>>
               [] str = "2" -> <<2, FALSE>>
               [] OTHER -> <<0, TRUE>>
\* traceCount taking a header that does not parse as one trace.
traceCountMalformedAsOne(h) == IF h = "" THEN 0 ELSE IF Atoi(h)[2] THEN 1 ELSE Atoi(h)[1]
traceCount(h) == IF h = "" THEN 0 ELSE Atoi(h)[1]

\* The wrapper without the media type test: every request reaches the handler.
HttpHandleWithVersionNoCheck(r) ==
    /\ req[r].pc = "new"
    /\ \E v \in Versions, mt \in MediaTypes :
         req' = [req EXCEPT ![r].pc = "handle", ![r].v = v, ![r].mt = mt]
    /\ UNCHANGED <<env, rateLimiterResponse, Out, wk, spansOut, concIn, Stats, refused, recv>>

\* httpHandleWithVersion: a request arrives on a path bound to version v; msgpack on
\* v01/v02 is answered with an error before the handler runs.
HttpHandleWithVersion(r) ==
    /\ req[r].pc = "new"
    /\ \E v \in Versions, mt \in MediaTypes :
         IF mt = "application/msgpack" /\ v \in {"v01", "v02"}
         THEN req' = [req EXCEPT ![r].pc = "unsupported", ![r].returned = TRUE,
                                 ![r].v = v, ![r].mt = mt,
                                 ![r].w = httpFormatError(req[r].w)]
         ELSE req' = [req EXCEPT ![r].pc = "handle", ![r].v = v, ![r].mt = mt]
    /\ UNCHANGED <<env, rateLimiterResponse, Out, wk, spansOut, concIn, Stats, refused, recv>>

\* The refusal without the WriteHeader call: the reply carries the default status.
HandleTracesRefuseDefaultStatus(r) ==
    /\ req[r].pc = "handle"
    /\ req' = [req EXCEPT ![r].pc = "refused",
                          ![r].returned = TRUE, ![r].mt = "",
                          ![r].body = "drained",
                          ![r].w = replyOK(req[r].v, req[r].w)]
    /\ refused' = refused + 1
    /\ UNCHANGED <<env, rateLimiterResponse, Out, wk, spansOut, concIn, Stats, recv>>

\* handleTraces, RateLimiter.Permits(traceCount) = false.
HandleTracesRefuse(r) ==
    /\ req[r].pc = "handle"
    /\ req' = [req EXCEPT ![r].pc = "refused",
                          ![r].returned = TRUE, ![r].mt = "",
                          ![r].body = "drained",
                          ![r].w = replyOK(req[r].v, WriteHeader(req[r].w, rateLimiterResponse))]
    /\ refused' = refused + 1
    /\ UNCHANGED <<env, rateLimiterResponse, Out, wk, spansOut, concIn, Stats, recv>>

\* The decode error counted as one trace whatever the header says.
HandleTracesDecodeErrorCountOne(r) ==
    /\ req[r].pc = "handle"
    /\ \E h \in HeaderValues :
         /\ req' = [req EXCEPT ![r].pc = "decodeError",
                               ![r].returned = TRUE, ![r].mt = "", ![r].h = h,
                               ![r].body = "read",
                               ![r].w = httpDecodingError(req[r].w)]
         /\ Stats' = AddCounter(Stats, "client", "DecodingError", 1)
    /\ UNCHANGED <<env, rateLimiterResponse, Out, wk, spansOut, concIn, refused, recv>>

\* handleTraces with header h, Permits = true and decodeTraces returns an error (a
\* malformed body, or one cut off by the LimitedReader).
HandleTracesDecodeError(r) ==
    /\ req[r].pc = "handle"
    /\ \E h \in HeaderValues :
         /\ req' = [req EXCEPT ![r].pc = "decodeError",
                               ![r].returned = TRUE, ![r].mt = "", ![r].h = h,
                               ![r].body = "read",
                               ![r].w = httpDecodingError(req[r].w)]
         /\ Stats' = AddCounter(Stats, "client", "DecodingError", traceCount(h))
    /\ UNCHANGED <<env, rateLimiterResponse, Out, wk, spansOut, concIn, refused, recv>>

\* handleTraces with header h, Permits = true and decodeTraces returns n traces.
HandleTracesDecode(r) ==
    /\ req[r].pc = "handle"
    /\ \E h \in HeaderValues, n \in 0..MaxTraces :
         req' = [req EXCEPT ![r].pc = "decoded", ![r].h = h, ![r].n = n, ![r].body = "read",
                            ![r].full = (Len(Out) = RawTraceCap)]
    /\ UNCHANGED <<env, rateLimiterResponse, Out, wk, spansOut, concIn, Stats, refused, recv>>

\* handleTraces: r.replyOK(v, w).
HandleTracesReply(r) ==
    /\ req[r].pc = "decoded"
    /\ req' = [req EXCEPT ![r].pc = "replied", ![r].w = replyOK(req[r].v, req[r].w)]
    /\ UNCHANGED <<env, rateLimiterResponse, Out, wk, spansOut, concIn, Stats, refused, recv>>

\* The goroutine started right after decoding, before the reply is written.
HandleTracesSpawnBeforeReply(r) ==
    /\ req[r].pc = "decoded"
    /\ req' = [req EXCEPT ![r].pc = "loop", ![r].returned = TRUE, ![r].mt = "",
                          ![r].h = "", ![r].i = 1]
    /\ Stats' = AddCounter(AddCounter(AddCounter(Stats,
                    "client", "TracesReceived", req[r].n),
                    "client", "TracesBytes", 1),
                    "client", "PayloadAccepted", 1)
    /\ UNCHANGED <<env, rateLimiterResponse, Out, wk, spansOut, concIn, refused, recv>>

\* handleTraces: the three counters, wg.Add(1) and the go statement; the handler returns.
HandleTracesSpawn(r) ==
    /\ req[r].pc = "replied"
    /\ req' = [req EXCEPT ![r].pc = "loop", ![r].returned = TRUE, ![r].mt = "",
                          ![r].h = "", ![r].i = 1]
    /\ Stats' = AddCounter(AddCounter(AddCounter(Stats,
                    "client", "TracesReceived", req[r].n),
                    "client", "TracesBytes", 1),
                    "client", "PayloadAccepted", 1)
    /\ UNCHANGED <<env, rateLimiterResponse, Out, wk, spansOut, concIn, refused, recv>>

\* processTraces leaving the loop at the first trace that fails normalization.
ProcessTracesNormalizeAbort(r) ==
    /\ req[r].pc = "loop"
    /\ IF req[r].i > req[r].n
       THEN /\ req' = [req EXCEPT ![r].pc = "done"]
            /\ UNCHANGED Stats
       ELSE \E spans \in {0} \cup SpanCounts, valid \in BOOLEAN :
              LET st == AddCounter(Stats, "client", "SpansReceived", spans) IN
              IF spans = 0 \/ ~valid
              THEN /\ Stats' = AddCounter(st, "client", "SpansDropped", spans)
                   /\ req' = [req EXCEPT ![r].pc = "done"]
              ELSE /\ Stats' = st
                   /\ req' = [req EXCEPT ![r].pc = "send", ![r].cur = spans]
    /\ UNCHANGED <<env, rateLimiterResponse, Out, wk, spansOut, concIn, refused, recv>>

\* processTraces: one iteration up to the channel send, or the end of the loop.
ProcessTracesNormalize(r) ==
    /\ req[r].pc = "loop"
    /\ IF req[r].i > req[r].n
       THEN /\ req' = [req EXCEPT ![r].pc = "done"]
            /\ UNCHANGED Stats
       ELSE \E spans \in {0} \cup SpanCounts, valid \in BOOLEAN :
              LET st == AddCounter(Stats, "client", "SpansReceived", spans) IN
              IF spans = 0 \/ ~valid
              THEN /\ Stats' = AddCounter(st, "client", "SpansDropped", spans)
                   /\ req' = [req EXCEPT ![r].i = @ + 1]
              ELSE /\ Stats' = st
                   /\ req' = [req EXCEPT ![r].pc = "send", ![r].cur = spans]
    /\ UNCHANGED <<env, rateLimiterResponse, Out, wk, spansOut, concIn, refused, recv>>

\* The send as a select with a default branch: the trace is dropped when Out is full.
ProcessTracesSendOrDrop(r) ==
    /\ req[r].pc = "send"
    /\ Out' = IF Len(Out) < RawTraceCap
              THEN Append(Out, [id |-> <<r, req[r].i>>, spans |-> req[r].cur])
              ELSE Out
    /\ req' = [req EXCEPT ![r].pc = "loop", ![r].i = @ + 1, ![r].cur = 0]
    /\ UNCHANGED <<env, rateLimiterResponse, wk, spansOut, concIn, Stats, refused, recv>>

\* The send on a channel that grows without bound.
ProcessTracesSendUnbounded(r) ==
    /\ req[r].pc = "send"
    /\ Out' = Append(Out, [id |-> <<r, req[r].i>>, spans |-> req[r].cur])
    /\ req' = [req EXCEPT ![r].pc = "loop", ![r].i = @ + 1, ![r].cur = 0]
    /\ UNCHANGED <<env, rateLimiterResponse, wk, spansOut, concIn, Stats, refused, recv>>

\* processTraces: r.Out <- trace, blocking while the channel is full.
ProcessTracesSend(r) ==
    /\ req[r].pc = "send"
    /\ Len(Out) < RawTraceCap
    /\ Out' = Append(Out, [id |-> <<r, req[r].i>>, spans |-> req[r].cur])
    /\ req' = [req EXCEPT ![r].pc = "loop", ![r].i = @ + 1, ![r].cur = 0]
    /\ UNCHANGED <<env, rateLimiterResponse, wk, spansOut, concIn, Stats, refused, recv>>

\* ------------------------------------------------------------- Agent
Log(f, ops) == [f EXCEPT !.log = @ \o ops]
Ran(f, op) == \E k \in 1..Len(f.log) : f.log[k] = op
Count(f, op) == Cardinality({k \in 1..Len(f.log) : f.log[k] = op})

\* Process: the priority-class counter chosen for the trace.
PriorityStat(priority, hasPriority) ==
    IF ~hasPriority THEN "TracesPriorityNone"
    ELSE IF priority < 0 THEN "TracesPriorityNeg"
    ELSE IF priority = 0 THEN "TracesPriority0"
    ELSE IF priority = 1 THEN "TracesPriority1"
    ELSE "TracesPriority2"

\* Process counting the trace without reading its priority.
ProcessHeadNoRead(f) ==
    Log([f EXCEPT !.priority = 0, !.hasPriority = FALSE], <<"atomic.AddInt64(stat)">>)

\* Process: GetRoot, GetTagStats, the up-front priority read and the counter.
ProcessHead(f) ==
    LET p == GetSamplingPriority(f.root) IN
    Log([f EXCEPT !.priority = p[1], !.hasPriority = p[2]],
        <<"GetSamplingPriority", "atomic.AddInt64(stat)">>)

\* ProcessSanitize without the AddGlobalRate of the pre-sample rate.
ProcessSanitizeNoPreRate(f, rateLimiterRate) ==
    LET clientSampleRate == GetGlobalRate(f.root)
        root1 == SetClientRate(f.root, clientSampleRate)
        root2 == SetPreSampleRate(root1, rateLimiterRate)
    IN Log([f EXCEPT !.root = root2,
                     !.clientSampleRate = clientSampleRate,
                     !.rateLimiterRate = rateLimiterRate],
           <<"Obfuscate", "Truncate", "Replace", "SetClientRate", "SetPreSampleRate",
             "ComputeTopLevel", "SetSublayersOnSpan">>)

\* Process: obfuscation, truncation, replacement, the rate annotations, top-level
\* marking and sublayers; rateLimiterRate is what RateLimiter.RealRate returned.
ProcessSanitize(f, rateLimiterRate) ==
    LET clientSampleRate == GetGlobalRate(f.root)
        root1 == SetClientRate(f.root, clientSampleRate)
        root2 == SetPreSampleRate(root1, rateLimiterRate)
        root3 == AddGlobalRate(root2, rateLimiterRate)
    IN Log([f EXCEPT !.root = root3,
                     !.clientSampleRate = clientSampleRate,
                     !.rateLimiterRate = rateLimiterRate],
           <<"Obfuscate", "Truncate", "Replace", "SetClientRate", "SetPreSampleRate",
             "AddGlobalRate", "ComputeTopLevel", "SetSublayersOnSpan">>)

\* runSamplers with the two decisions combined by AND instead of OR.
runSamplersBothMustKeep(f, resP, resS) ==
    LET ok == GetSamplingPriority(f.root)[2]
        sampledPriority == IF ok THEN resP[1] ELSE FALSE
        ratePriority == IF ok THEN resP[2] ELSE Zero
    IN [sampled |-> resS[1] /\ sampledPriority,
        sampledPriority |-> sampledPriority, sampledScore |-> resS[1],
        rate |-> CombineRates(ratePriority, resS[2]),
        ops |-> <<"pt.GetSamplingPriority">>
                \o (IF ok THEN <<"PrioritySampler.Add">> ELSE <<>>)
                \o (IF f.err THEN <<"ErrorsScoreSampler.Add">> ELSE <<"ScoreSampler.Add">>)]

\* runSamplers: resP is what PrioritySampler.Add returns if it is called, resS what the
\* score sampler that is called returns. The result is (sampled, rate, calls made).
runSamplers(f, resP, resS) ==
    LET ok == GetSamplingPriority(f.root)[2]
        sampledPriority == IF ok THEN resP[1] ELSE FALSE
        ratePriority == IF ok THEN resP[2] ELSE Zero
        sampledScore == resS[1]
        rateScore == resS[2]
    IN [sampled |-> sampledScore \/ sampledPriority,
        sampledPriority |-> sampledPriority, sampledScore |-> sampledScore,
        rate |-> CombineRates(ratePriority, rateScore),
        ops |-> <<"pt.GetSamplingPriority">>
                \o (IF ok THEN <<"PrioritySampler.Add">> ELSE <<>>)
                \o (IF f.err THEN <<"ErrorsScoreSampler.Add">> ELSE <<"ScoreSampler.Add">>)]

\* writer.SampledSpans.Empty
SampledSpansEmpty(ss) == ~ss.trace /\ ss.events = 0

\* sample attaching the trace to the message whatever the samplers decided.
sampleAlwaysAttach(f, resP, resS, ev) ==
    LET rs == runSamplers(f, resP, resS)
        f1 == Log(f, rs.ops)
        f2 == IF rs.sampled
              THEN Log([f1 EXCEPT !.root = AddGlobalRate(f1.root, rs.rate)],
                       <<"AddGlobalRate">>)
              ELSE f1
    IN Log([f2 EXCEPT !.sampled = rs.sampled, !.rate = rs.rate,
                      !.sampledPriority = rs.sampledPriority,
                      !.sampledScore = rs.sampledScore,
                      !.ss.trace = TRUE, !.ss.events = ev[1]],
           <<"EventProcessor.Process">>)

\* sample, up to the send: ev is what EventProcessor.Process returns.
sample(f, resP, resS, ev) ==
    LET rs == runSamplers(f, resP, resS)
        f1 == Log(f, rs.ops)
        f2 == IF rs.sampled
              THEN Log([f1 EXCEPT !.root = AddGlobalRate(f1.root, rs.rate),
                                  !.ss.trace = TRUE],
                       <<"AddGlobalRate">>)
              ELSE f1
    IN Log([f2 EXCEPT !.sampled = rs.sampled, !.rate = rs.rate,
                      !.sampledPriority = rs.sampledPriority,
                      !.sampledScore = rs.sampledScore, !.ss.events = ev[1]],
           <<"EventProcessor.Process">>)

\* The gate with a strict comparison.
SamplerGateStrict(f) == f.priority > 0

\* Process: the condition under which sample is called.
SamplerGate(f) == f.priority >= 0

\* Process returning early when the sampled-spans message is empty.
ProcessLocalReturnWhenEmpty(f, allowed, rateLimiterRate, resP, resS, ev) ==
    IF f.spans = 0 THEN [f EXCEPT !.pc = "done"]
    ELSE LET h == Log(ProcessHead(f), <<"Blacklister.Allows">>) IN
         IF ~allowed
         THEN [Log(h, <<"TracesFiltered", "SpansFiltered">>)
                 EXCEPT !.pc = "done", !.filtered = TRUE]
         ELSE LET s == ProcessSanitize(h, rateLimiterRate)
                  g == IF SamplerGate(s) THEN sample(s, resP, resS, ev) ELSE s
              IN [g EXCEPT !.pc = IF SampledSpansEmpty(g.ss)
                                  THEN "done" ELSE "sendSpans"]

\* Process running the samplers on the trace before it is sanitized and annotated.
ProcessLocalSampleFirst(f, allowed, rateLimiterRate, resP, resS, ev) ==
    IF f.spans = 0 THEN [f EXCEPT !.pc = "done"]
    ELSE LET h == Log(ProcessHead(f), <<"Blacklister.Allows">>) IN
         IF ~allowed
         THEN [Log(h, <<"TracesFiltered", "SpansFiltered">>)
                 EXCEPT !.pc = "done", !.filtered = TRUE]
         ELSE LET s == IF SamplerGate(h) THEN sample(h, resP, resS, ev) ELSE h
                  g == ProcessSanitize(s, rateLimiterRate)
              IN [g EXCEPT !.pc = IF SampledSpansEmpty(g.ss)
                                  THEN "sendConc" ELSE "sendSpans"]

\* Process going on with a trace the Blacklister rejected, after counting it.
ProcessLocalFilterAndGoOn(f, allowed, rateLimiterRate, resP, resS, ev) ==
    IF f.spans = 0 THEN [f EXCEPT !.pc = "done"]
    ELSE LET h == Log(ProcessHead(f), <<"Blacklister.Allows">>)
             h1 == IF ~allowed
                   THEN [Log(h, <<"TracesFiltered", "SpansFiltered">>)
                           EXCEPT !.filtered = TRUE]
                   ELSE h
             s == ProcessSanitize(h1, rateLimiterRate)
             g == IF SamplerGate(s) THEN sample(s, resP, resS, ev) ELSE s
         IN [g EXCEPT !.pc = IF SampledSpansEmpty(g.ss)
                             THEN "sendConc" ELSE "sendSpans"]

\* Process from its first statement to its first channel send (or its return).
ProcessLocal(f, allowed, rateLimiterRate, resP, resS, ev) ==
    IF f.spans = 0 THEN [f EXCEPT !.pc = "done"]
    ELSE LET h == Log(ProcessHead(f), <<"Blacklister.Allows">>) IN
         IF ~allowed
         THEN [Log(h, <<"TracesFiltered", "SpansFiltered">>)
                 EXCEPT !.pc = "done", !.filtered = TRUE]
         ELSE LET s == ProcessSanitize(h, rateLimiterRate)
                  g == IF SamplerGate(s) THEN sample(s, resP, resS, ev) ELSE s
              IN [g EXCEPT !.pc = IF SampledSpansEmpty(g.ss)
                                  THEN "sendConc" ELSE "sendSpans"]

\* The TagStats counters Process and sample add to (info.Tags{}).
ProcessCounters(st, g, ev) ==
    IF g.spans = 0 THEN st
    ELSE LET st1 == AddCounter(st, "empty", PriorityStat(g.priority, g.hasPriority), 1) IN
         IF g.filtered
         THEN AddCounter(AddCounter(st1, "empty", "TracesFiltered", 1),
                         "empty", "SpansFiltered", g.spans)
         ELSE IF Ran(g, "EventProcessor.Process")
         THEN AddCounter(AddCounter(st1, "empty", "EventsExtracted", ev[2]),
                         "empty", "EventsSampled", ev[1])
         ELSE st1

\* work: receive a trace from Receiver.Out.
WorkRecv(w) ==
    /\ wk[w].pc = "idle"
    /\ Out # <<>>
    /\ wk' = [wk EXCEPT ![w] = [IdleWorker EXCEPT !.pc = "process",
                                                  !.id = Head(Out).id,
                                                  !.spans = Head(Out).spans,
                                                  !.refs = {"worker"}]]
    /\ Out' = Tail(Out)
    /\ recv' = [recv EXCEPT ![Head(Out).id] = @ + 1]
    /\ UNCHANGED <<env, rateLimiterResponse, req, spansOut, concIn, Stats, refused>>

\* What one call of Process reads from outside: the trace's content (root Metrics,
\* whether a span has error != 0), the Blacklister's verdict, RateLimiter.RealRate, the
\* samplers' and the event processor's answers.
ProcessInputs ==
    [root : RootInputs, err : BOOLEAN, allowed : BOOLEAN, rl : RealRates,
     resP : SamplerResults, resS : SamplerResults, ev : EventResults]

\* Three traces of ProcessInputs, one per path through Process: rejected by the
\* Blacklister, negative priority (Concentrator only), kept by the samplers.
PipelineInputs ==
    { [root |-> NoMetrics, err |-> FALSE, allowed |-> FALSE, rl |-> One,
       resP |-> <<FALSE, Half>>, resS |-> <<FALSE, Half>>, ev |-> <<0, 0>>],
      [root |-> (KeySamplingPriority :> -1), err |-> FALSE, allowed |-> TRUE, rl |-> One,
       resP |-> <<FALSE, Half>>, resS |-> <<FALSE, Half>>, ev |-> <<0, 0>>],
      [root |-> (KeySamplingPriority :> 1), err |-> FALSE, allowed |-> TRUE, rl |-> One,
       resP |-> <<TRUE, One>>, resS |-> <<TRUE, One>>, ev |-> <<0, 0>>] }

\* Process(t), run up to its first channel send, on a trace and answers drawn from Inputs.
ProcessTraceOn(w, Inputs) ==
    /\ wk[w].pc = "process"
    /\ \E in \in Inputs :
         LET f == [wk[w] EXCEPT !.root = in.root, !.err = in.err, !.in = in]
             g == ProcessLocal(f, in.allowed, in.rl, in.resP, in.resS, in.ev)
         IN /\ wk' = [wk EXCEPT ![w] = g]
            /\ Stats' = ProcessCounters(Stats, g, in.ev)
    /\ UNCHANGED <<env, rateLimiterResponse, req, Out, spansOut, concIn, refused, recv>>

ProcessTrace(w) == ProcessTraceOn(w, PipelineInputs)

\* sample annotating the root with the sampler rate after the send instead of before.
SendSpansThenAddRate(w) ==
    /\ wk[w].pc = "sendSpans"
    /\ Len(spansOut) < SpansOutCap
    /\ spansOut' = Append(spansOut, [id |-> wk[w].id, trace |-> wk[w].ss.trace,
                                     events |-> wk[w].ss.events])
    /\ wk' = [wk EXCEPT ![w] = [Log(wk[w], <<"spansOut<-", "AddGlobalRate">>) EXCEPT
                  !.pc = "sendConc",
                  !.refs = IF wk[w].ss.trace THEN @ \cup {"writer"} ELSE @]]
    /\ UNCHANGED <<env, rateLimiterResponse, req, Out, concIn, Stats, refused, recv>>

\* sample: a.spansOut <- &ss, blocking while the channel is full.
SendSpans(w) ==
    /\ wk[w].pc = "sendSpans"
    /\ Len(spansOut) < SpansOutCap
    /\ spansOut' = Append(spansOut, [id |-> wk[w].id, trace |-> wk[w].ss.trace,
                                     events |-> wk[w].ss.events])
    /\ wk' = [wk EXCEPT ![w] = [Log(wk[w], <<"spansOut<-">>) EXCEPT
                  !.pc = "sendConc",
                  !.refs = IF wk[w].ss.trace THEN @ \cup {"writer"} ELSE @]]
    /\ UNCHANGED <<env, rateLimiterResponse, req, Out, concIn, Stats, refused, recv>>

\* Process: a.Concentrator.In <- &stats.Input{...}, blocking while the channel is full.
SendConcentrator(w) ==
    /\ wk[w].pc = "sendConc"
    /\ Len(concIn) < ConcInCap
    /\ concIn' = Append(concIn, [id |-> wk[w].id])
    /\ wk' = [wk EXCEPT ![w] = [Log(wk[w], <<"Concentrator.In<-">>) EXCEPT
                  !.pc = "done", !.refs = @ \cup {"concentrator"}]]
    /\ UNCHANGED <<env, rateLimiterResponse, req, Out, spansOut, Stats, refused, recv>>

\* Process returns; work loops.
ProcessReturn(w) ==
    /\ wk[w].pc = "done"
    /\ wk' = [wk EXCEPT ![w] = IdleWorker]
    /\ UNCHANGED <<env, rateLimiterResponse, req, Out, spansOut, concIn, Stats, refused, recv>>

\* TraceWriter.Run takes a message from spansOut.
TraceWriterRecv ==
    /\ spansOut # <<>>
    /\ spansOut' = Tail(spansOut)
    /\ UNCHANGED <<env, rateLimiterResponse, req, Out, wk, concIn, Stats, refused, recv>>

\* Concentrator.Run takes an Input from Concentrator.In.
ConcentratorRecv ==
    /\ concIn # <<>>
    /\ concIn' = Tail(concIn)
    /\ UNCHANGED <<env, rateLimiterResponse, req, Out, wk, spansOut, Stats, refused, recv>>

\* ------------------------------------------------------------- specification
Next ==
    \/ \E r \in Reqs : HttpHandleWithVersion(r)
    \/ \E r \in Reqs : HandleTracesRefuse(r)
    \/ \E r \in Reqs : HandleTracesDecodeError(r)
    \/ \E r \in Reqs : HandleTracesDecode(r)
    \/ \E r \in Reqs : HandleTracesReply(r)
    \/ \E r \in Reqs : HandleTracesSpawn(r)
    \/ \E r \in Reqs : ProcessTracesNormalize(r)
    \/ \E r \in Reqs : ProcessTracesSend(r)
    \/ \E w \in Workers : WorkRecv(w)
    \/ \E w \in Workers : ProcessTrace(w)
    \/ \E w \in Workers : SendSpans(w)
    \/ \E w \in Workers : SendConcentrator(w)
    \/ \E w \in Workers : ProcessReturn(w)
    \/ TraceWriterRecv
    \/ ConcentratorRecv

Spec == Init /\ [][Next]_vars

\* Fair scheduling: Go schedules every runnable goroutine, and a goroutine blocked on a
\* channel runs again once the channel operation is possible.
Fairness ==
    /\ \A r \in Reqs : WF_vars(ProcessTracesNormalize(r)) /\ WF_vars(ProcessTracesSend(r))
    /\ \A w \in Workers : /\ WF_vars(WorkRecv(w))
                          /\ WF_vars(ProcessTrace(w))
                          /\ WF_vars(SendSpans(w))
                          /\ WF_vars(SendConcentrator(w))
                          /\ WF_vars(ProcessReturn(w))
    /\ WF_vars(TraceWriterRecv)
    /\ WF_vars(ConcentratorRecv)

\* ------------------------------------------------------------- the processTraces goroutines
\* The pipeline state in which every request (v04) was admitted with MaxTraces traces,
\* answered, and its handler returned after starting the processTraces goroutine: the
\* goroutines, the workers and the two consumers then run under fair scheduling, with
\* no cancellation.
Accepted ==
    [IdleReq EXCEPT !.pc = "loop", !.v = "v04", !.body = "read", !.n = MaxTraces, !.i = 1,
                    !.returned = TRUE,
                    !.w = [status |-> StatusOK, body |-> "rate_by_service"]]

ReceiverInit ==
    /\ rateLimiterResponse \in {StatusOK, StatusTooManyRequests}
    /\ req = [r \in Reqs |-> Accepted]
    /\ Out = <<>>
    /\ Stats = [t \in Tags |-> [c \in CounterNames |->
                  IF t = "client" /\ c = "TracesReceived" THEN MaxReqs * MaxTraces
                  ELSE IF t = "client" /\ c \in {"TracesBytes", "PayloadAccepted"}
                       THEN MaxReqs
                  ELSE 0]]
    /\ wk = [w \in Workers |-> IdleWorker]
    /\ spansOut = <<>>
    /\ concIn = <<>>
    /\ refused = 0
    /\ recv = [t \in TraceIds |-> 0]
    /\ EnvInit

ReceiverNext ==
    \/ \E r \in Reqs : ProcessTracesNormalize(r)
    \/ \E r \in Reqs : ProcessTracesSend(r)
    \/ \E w \in Workers : WorkRecv(w)
    \/ \E w \in Workers : ProcessTrace(w)
    \/ \E w \in Workers : SendSpans(w)
    \/ \E w \in Workers : SendConcentrator(w)
    \/ \E w \in Workers : ProcessReturn(w)
    \/ TraceWriterRecv
    \/ ConcentratorRecv

FairSpec == ReceiverInit /\ [][ReceiverNext]_vars /\ Fairness

\* ReceiverInit is a state of the pipeline: Spec reaches it.
ReceiverInitReached ==
    /\ \A r \in Reqs : req[r] = Accepted
    /\ Out = <<>>
    /\ Stats["client"]["TracesReceived"] = MaxReqs * MaxTraces
    /\ Stats["client"]["PayloadAccepted"] = MaxReqs
    /\ Stats["client"]["SpansReceived"] = 0
    /\ \A w \in Workers : wk[w] = IdleWorker
    /\ refused = 0 /\ spansOut = <<>> /\ concIn = <<>>

\* ------------------------------------------------------------- one payload
\* The pipeline state in which request 1 (v04) was admitted with a payload of
\* MaxPayload traces and answered, its processTraces goroutine about to start.
PayloadInit ==
    /\ rateLimiterResponse \in {StatusOK, StatusTooManyRequests}
    /\ req = [r \in Reqs |-> IF r = 1 THEN [Accepted EXCEPT !.n = MaxPayload] ELSE IdleReq]
    /\ Out = <<>>
    /\ Stats = [t \in Tags |-> [c \in CounterNames |->
                  IF t = "client" /\ c = "TracesReceived" THEN MaxPayload
                  ELSE IF t = "client" /\ c \in {"TracesBytes", "PayloadAccepted"} THEN 1
                  ELSE 0]]
    /\ wk = [w \in Workers |-> IdleWorker]
    /\ spansOut = <<>>
    /\ concIn = <<>>
    /\ refused = 0
    /\ recv = [t \in TraceIds |-> 0]
    /\ EnvInit

PayloadSpec == PayloadInit /\ [][ReceiverNext]_vars

\* ------------------------------------------------------------- process start, watchdog
\* MaxMemory and MaxCPU in the units of the readings; 0 disables the limit.
Confs == [MaxMemory : {0, 2}, MaxCPU : {0, 1}, ReceiverSocket : BOOLEAN]
\* watchdog.Mem().Alloc and watchdog.CPU(now).UserAvg
MemReadings == {1, 3, 4}
CPUReadings == {1, 2}

RLe(x, y) == x[1] * y[2] <= y[1] * x[2]
RMin(x, y) == IF RLe(x, y) THEN x ELSE y
\* computeRateLimitingRate: currentRate * maxUsage / currentUsage, clipped to [0, 1].
computeRateLimitingRate(maxUsage, currentUsage, currentRate) ==
    IF currentUsage = 0 THEN One
    ELSE RMin(One, Norm(currentRate[1] * maxUsage, currentRate[2] * currentUsage))

\* HTTPReceiver.Start: killProcess when a listener cannot be created.
Start ==
    /\ proc.pc = "init"
    /\ \E tcp \in BOOLEAN, uds \in BOOLEAN :
         proc' = IF ~tcp
                 THEN [pc |-> "exited", killed |-> "Error creating tcp listener",
                       log |-> <<"killProcess">>]
                 ELSE IF conf.ReceiverSocket /\ ~uds
                 THEN [pc |-> "exited", killed |-> "Error creating UDS listener",
                       log |-> <<"killProcess">>]
                 ELSE [proc EXCEPT !.pc = "running"]
    /\ UNCHANGED <<rateLimiterResponse, req, Out, wk, spansOut, concIn, Stats, refused,
                   recv, conf, targetRate, wd, sd, grp, fl, dk>>

\* The locals of a watchdog call that went through.
Tick(mem, cpu, realRate) ==
    [mem |-> mem, cpu |-> cpu, realRate |-> realRate,
     rateMem |-> IF conf.MaxMemory > 0
                 THEN computeRateLimitingRate(conf.MaxMemory, mem, realRate) ELSE One,
     rateCPU |-> IF conf.MaxCPU > 0
                 THEN computeRateLimitingRate(conf.MaxCPU, cpu, realRate) ELSE One]
\* The locals of a watchdog call that ended in killProcess.
KillTick(mem, cpu, realRate) ==
    [mem |-> mem, cpu |-> cpu, realRate |-> realRate, rateMem |-> One, rateCPU |-> One]
OOMExit == [pc |-> "exited", killed |-> "OOM",
            log |-> <<"receiver.oom_kill", "metrics.Flush", "killProcess">>]

\* The watchdog killing at the threshold itself.
WatchdogKillAtThreshold(Readings) ==
    /\ proc.pc = "running"
    /\ sd.exit = "open" /\ fl.pc = "select"
    /\ \E rd \in Readings :
         IF conf.MaxMemory > 0 /\ 2 * rd.mem >= 3 * conf.MaxMemory
         THEN /\ proc' = OOMExit
              /\ wd' = KillTick(rd.mem, rd.cpu, rd.realRate)
              /\ UNCHANGED targetRate
         ELSE /\ wd' = Tick(rd.mem, rd.cpu, rd.realRate)
              /\ targetRate' = RMin(wd'.rateCPU, wd'.rateMem)
              /\ UNCHANGED proc
    /\ UNCHANGED <<rateLimiterResponse, req, Out, wk, spansOut, concIn, Stats, refused,
                   recv, conf, sd, grp, fl, dk>>

\* The watchdog setting the target rate from the memory rate alone.
WatchdogMemOnly(Readings) ==
    /\ proc.pc = "running"
    /\ sd.exit = "open" /\ fl.pc = "select"
    /\ \E rd \in Readings :
         IF conf.MaxMemory > 0 /\ 2 * rd.mem > 3 * conf.MaxMemory
         THEN /\ proc' = OOMExit
              /\ wd' = KillTick(rd.mem, rd.cpu, rd.realRate)
              /\ UNCHANGED targetRate
         ELSE /\ wd' = Tick(rd.mem, rd.cpu, rd.realRate)
              /\ targetRate' = wd'.rateMem
              /\ UNCHANGED proc
    /\ UNCHANGED <<rateLimiterResponse, req, Out, wk, spansOut, concIn, Stats, refused,
                   recv, conf, sd, grp, fl, dk>>

\* The watchdog with an interlock on the CPU reading as well.
WatchdogKillOnCPU(Readings) ==
    /\ proc.pc = "running"
    /\ sd.exit = "open" /\ fl.pc = "select"
    /\ \E rd \in Readings :
         IF \/ conf.MaxMemory > 0 /\ 2 * rd.mem > 3 * conf.MaxMemory
            \/ conf.MaxCPU > 0 /\ 2 * rd.cpu > 3 * conf.MaxCPU
         THEN /\ proc' = OOMExit
              /\ wd' = KillTick(rd.mem, rd.cpu, rd.realRate)
              /\ UNCHANGED targetRate
         ELSE /\ wd' = Tick(rd.mem, rd.cpu, rd.realRate)
              /\ targetRate' = RMin(wd'.rateCPU, wd'.rateMem)
              /\ UNCHANGED proc
    /\ UNCHANGED <<rateLimiterResponse, req, Out, wk, spansOut, concIn, Stats, refused,
                   recv, conf, sd, grp, fl, dk>>

\* HTTPReceiver.loop, case now := <-tw.C: one call of watchdog on a reading of
\* Readings. current > MaxMemory * 1.5 is 2 * current > 3 * MaxMemory.
WatchdogOn(Readings) ==
    /\ proc.pc = "running"
    /\ sd.exit = "open" /\ fl.pc = "select"
    /\ \E rd \in Readings :
         IF conf.MaxMemory > 0 /\ 2 * rd.mem > 3 * conf.MaxMemory
         THEN /\ proc' = OOMExit
              /\ wd' = KillTick(rd.mem, rd.cpu, rd.realRate)
              /\ UNCHANGED targetRate
         ELSE /\ wd' = Tick(rd.mem, rd.cpu, rd.realRate)
              /\ targetRate' = RMin(wd'.rateCPU, wd'.rateMem)
              /\ UNCHANGED proc
    /\ UNCHANGED <<rateLimiterResponse, req, Out, wk, spansOut, concIn, Stats, refused,
                   recv, conf, sd, grp, fl, dk>>

AllReadings == [mem : MemReadings, cpu : CPUReadings, realRate : RealRates]
Watchdog == WatchdogOn(AllReadings)

\* The process before Start, under any configuration of Confs.
ProcessInit ==
    /\ rateLimiterResponse \in {StatusOK, StatusTooManyRequests}
    /\ req = [r \in Reqs |-> IdleReq]
    /\ Out = <<>>
    /\ wk = [w \in Workers |-> IdleWorker]
    /\ spansOut = <<>>
    /\ concIn = <<>>
    /\ Stats = [t \in Tags |-> [c \in CounterNames |-> 0]]
    /\ refused = 0
    /\ recv = [t \in TraceIds |-> 0]
    /\ conf \in Confs
    /\ proc = [Running EXCEPT !.pc = "init"]
    /\ targetRate = One
    /\ wd = NoTick
    /\ sd = NoShutdown
    /\ grp = NoGroup
    /\ fl = NoFlush
    /\ dk = NoDocker

WatchdogNext ==
    \/ Start
    \/ Watchdog

WatchdogSpec == ProcessInit /\ [][WatchdogNext]_vars

\* ------------------------------------------------------------- the 10 s flush
\* ReceiverStats.Acc: every counter of st added to the same counter of acc.
Acc(acc, st) == [t \in Tags |-> [c \in CounterNames |-> acc[t][c] + st[t][c]]]

\* HTTPReceiver.loop, case now := <-t.C: the two gauges and accStats.Acc(r.Stats).
FlushAcc ==
    /\ proc.pc = "running"
    /\ sd.exit = "open" /\ fl.pc = "select"
    /\ fl' = [fl EXCEPT !.pc = "Publish", !.accStats = Acc(fl.accStats, Stats),
                        !.acc = Stats]
    /\ UNCHANGED <<rateLimiterResponse, req, Out, wk, spansOut, concIn, Stats, refused,
                   recv, conf, proc, targetRate, wd, sd, grp, dk>>

\* r.Stats.Publish(): the counters as they are now go to statsd.
FlushPublish ==
    /\ proc.pc = "running"
    /\ fl.pc = "Publish"
    /\ fl' = [fl EXCEPT !.pc = "Reset", !.published = Stats]
    /\ UNCHANGED <<rateLimiterResponse, req, Out, wk, spansOut, concIn, Stats, refused,
                   recv, conf, proc, targetRate, wd, sd, grp, dk>>

\* r.Stats.Reset(): every counter back to 0; once a minute (now.Sub(lastLog) >=
\* time.Minute) accStats is exposed, logged and reset as well. Back to the select.
FlushReset ==
    /\ proc.pc = "running"
    /\ fl.pc = "Reset"
    /\ Stats' = ZeroStats
    /\ \E minute \in BOOLEAN :
         fl' = [fl EXCEPT !.pc = "select",
                          !.accStats = IF minute THEN ZeroStats ELSE @]
    /\ UNCHANGED <<rateLimiterResponse, req, Out, wk, spansOut, concIn, refused,
                   recv, conf, proc, targetRate, wd, sd, grp, dk>>

\* One request served while the receiver loop flushes.
FlushReqs == {1}

FlushNext ==
    \/ FlushAcc
    \/ FlushPublish
    \/ FlushReset
    \/ \E r \in FlushReqs : HttpHandleWithVersion(r)
    \/ \E r \in FlushReqs : HandleTracesRefuse(r)
    \/ \E r \in FlushReqs : HandleTracesDecodeError(r)
    \/ \E r \in FlushReqs : HandleTracesDecode(r)
    \/ \E r \in FlushReqs : HandleTracesReply(r)
    \/ \E r \in FlushReqs : HandleTracesSpawn(r)
    \/ \E r \in FlushReqs : ProcessTracesNormalize(r)
    \/ \E r \in FlushReqs : ProcessTracesSend(r)

FlushSpec == Init /\ [][FlushNext]_vars

\* ------------------------------------------------------------- shutdown
\* A handler of the HTTP server is running for request r.
InHandler(r) == req[r].pc \in {"handle", "decoded", "replied"}
\* The processTraces goroutine of request r is running (counted by r.wg).
InGoroutine(r) == req[r].pc \in {"loop", "send"}

\* The cancellation signal: ctx is cancelled.
Cancel ==
    /\ proc.pc = "running"
    /\ sd.ctx = "live"
    /\ sd' = [sd EXCEPT !.ctx = "done"]
    /\ UNCHANGED <<rateLimiterResponse, req, Out, wk, spansOut, concIn, Stats, refused,
                   recv, conf, proc, targetRate, wd, grp, fl, dk>>

\* Agent.loop: case <-a.ctx.Done(); it calls Receiver.Stop.
LoopExiting ==
    /\ proc.pc = "running"
    /\ sd.ctx = "done" /\ sd.loop = "select"
    /\ sd' = [sd EXCEPT !.loop = "Receiver.Stop", !.stop = "exit"]
    /\ UNCHANGED <<rateLimiterResponse, req, Out, wk, spansOut, concIn, Stats, refused,
                   recv, conf, proc, targetRate, wd, grp, fl, dk>>

\* HTTPReceiver.Stop: r.exit <- struct{}{} is taken by HTTPReceiver.loop, which returns
\* and closes r.exit; then RateLimiter.Stop and server.Shutdown begins: the listeners
\* are closed, no new request is served.
StopExit ==
    /\ proc.pc = "running"
    /\ sd.stop = "exit" /\ fl.pc = "select"
    /\ sd' = [sd EXCEPT !.exit = "closed", !.stop = "Shutdown", !.server = "shutdown",
                        !.stopped = @ \cup {"RateLimiter"}]
    /\ UNCHANGED <<rateLimiterResponse, req, Out, wk, spansOut, concIn, Stats, refused,
                   recv, conf, proc, targetRate, wd, grp, fl, dk>>

\* server.Shutdown returns nil: no handler is running. Stop then waits for the
\* processTraces goroutines.
StopShutdownDone ==
    /\ proc.pc = "running"
    /\ sd.stop = "Shutdown"
    /\ \A r \in Reqs : ~InHandler(r)
    /\ sd' = [sd EXCEPT !.stop = "wg.Wait"]
    /\ UNCHANGED <<rateLimiterResponse, req, Out, wk, spansOut, concIn, Stats, refused,
                   recv, conf, proc, targetRate, wd, grp, fl, dk>>

\* server.Shutdown returns the context's error: a handler is still running at the
\* 5 s deadline. Stop returns the error; Agent.loop logs it and goes on.
StopShutdownDeadline ==
    /\ proc.pc = "running"
    /\ sd.stop = "Shutdown"
    /\ \E r \in Reqs : InHandler(r)
    /\ sd' = [sd EXCEPT !.stop = "returned err", !.loop = "Concentrator.Stop"]
    /\ UNCHANGED <<rateLimiterResponse, req, Out, wk, spansOut, concIn, Stats, refused,
                   recv, conf, proc, targetRate, wd, grp, fl, dk>>

\* Stop closing Out right after the server shut down, without r.wg.Wait().
StopCloseNoWait ==
    /\ proc.pc = "running"
    /\ sd.stop = "wg.Wait"
    /\ sd' = [sd EXCEPT !.stop = "returned nil", !.outClosed = TRUE,
                        !.loop = "Concentrator.Stop"]
    /\ UNCHANGED <<rateLimiterResponse, req, Out, wk, spansOut, concIn, Stats, refused,
                   recv, conf, proc, targetRate, wd, grp, fl, dk>>

\* HTTPReceiver.Stop: r.wg.Wait() returns once every processTraces goroutine is done;
\* close(r.Out); return nil.
StopClose ==
    /\ proc.pc = "running"
    /\ sd.stop = "wg.Wait"
    /\ \A r \in Reqs : ~InGoroutine(r)
    /\ sd' = [sd EXCEPT !.stop = "returned nil", !.outClosed = TRUE,
                        !.loop = "Concentrator.Stop"]
    /\ UNCHANGED <<rateLimiterResponse, req, Out, wk, spansOut, concIn, Stats, refused,
                   recv, conf, proc, targetRate, wd, grp, fl, dk>>

\* Agent.loop: a.Concentrator.Stop().
LoopStopConcentrator ==
    /\ proc.pc = "running"
    /\ sd.loop = "Concentrator.Stop"
    /\ sd' = [sd EXCEPT !.loop = "TraceWriter.Stop", !.stopped = @ \cup {"Concentrator"}]
    /\ UNCHANGED <<rateLimiterResponse, req, Out, wk, spansOut, concIn, Stats, refused,
                   recv, conf, proc, targetRate, wd, grp, fl, dk>>

\* Agent.loop: a.TraceWriter.Stop(), then the StatsWriter, the samplers and the
\* EventProcessor; return.
LoopStopWriters ==
    /\ proc.pc = "running"
    /\ sd.loop = "TraceWriter.Stop"
    /\ sd' = [sd EXCEPT !.loop = "returned",
                        !.stopped = @ \cup {"TraceWriter", "StatsWriter", "Samplers",
                                            "EventProcessor"}]
    /\ UNCHANGED <<rateLimiterResponse, req, Out, wk, spansOut, concIn, Stats, refused,
                   recv, conf, proc, targetRate, wd, grp, fl, dk>>

\* Agent.work: the receive from a closed and empty Receiver.Out gives ok = false; return.
WorkExit(w) ==
    /\ proc.pc = "running"
    /\ wk[w].pc = "idle"
    /\ Out = <<>> /\ sd.outClosed
    /\ wk' = [wk EXCEPT ![w].pc = "exited"]
    /\ UNCHANGED <<rateLimiterResponse, req, Out, spansOut, concIn, Stats, refused,
                   recv, conf, proc, targetRate, wd, sd, grp, fl, dk>>

\* ------------------------------------------------------------- the life of the process
\* One configuration with both limits and the Unix socket set, one request, and a
\* watchdog that reads a quiet machine, a busy CPU, or memory over the interlock.
LifeConfs == {[MaxMemory |-> 2, MaxCPU |-> 1, ReceiverSocket |-> TRUE]}
LifeReadings == {[mem |-> 1, cpu |-> 2, realRate |-> One],
                 [mem |-> 4, cpu |-> 1, realRate |-> One]}
LifeReqs == {1}
Alive == proc.pc = "running"
Serving == Alive /\ sd.server = "serving"

LifeInit ==
    /\ rateLimiterResponse = StatusTooManyRequests
    /\ req = [r \in Reqs |-> IdleReq]
    /\ Out = <<>>
    /\ wk = [w \in Workers |-> IdleWorker]
    /\ spansOut = <<>>
    /\ concIn = <<>>
    /\ Stats = [t \in Tags |-> [c \in CounterNames |-> 0]]
    /\ refused = 0
    /\ recv = [t \in TraceIds |-> 0]
    /\ conf \in LifeConfs
    /\ proc = [Running EXCEPT !.pc = "init"]
    /\ targetRate = One
    /\ wd = NoTick
    /\ sd = NoShutdown
    /\ grp = NoGroup
    /\ fl = NoFlush
    /\ dk = NoDocker

LifeNext ==
    \/ Start
    \/ WatchdogOn(LifeReadings)
    \/ Cancel
    \/ LoopExiting
    \/ StopExit
    \/ StopShutdownDone
    \/ StopShutdownDeadline
    \/ StopClose
    \/ LoopStopConcentrator
    \/ LoopStopWriters
    \/ \E w \in Workers : WorkExit(w)
    \/ \E r \in LifeReqs : Serving /\ HttpHandleWithVersion(r)
    \/ \E r \in LifeReqs : Alive /\ HandleTracesRefuse(r)
    \/ \E r \in LifeReqs : Alive /\ HandleTracesDecodeError(r)
    \/ \E r \in LifeReqs : Alive /\ HandleTracesDecode(r)
    \/ \E r \in LifeReqs : Alive /\ HandleTracesReply(r)
    \/ \E r \in LifeReqs : Alive /\ HandleTracesSpawn(r)
    \/ \E r \in LifeReqs : Alive /\ ProcessTracesNormalize(r)
    \/ \E r \in LifeReqs : Alive /\ ProcessTracesSend(r)
    \/ \E w \in Workers : Alive /\ WorkRecv(w)
    \/ \E w \in Workers : Alive /\ ProcessTrace(w)
    \/ \E w \in Workers : Alive /\ SendSpans(w)
    \/ \E w \in Workers : Alive /\ SendConcentrator(w)
    \/ \E w \in Workers : Alive /\ ProcessReturn(w)
    \/ Alive /\ "TraceWriter" \notin sd.stopped /\ TraceWriterRecv
    \/ Alive /\ "Concentrator" \notin sd.stopped /\ ConcentratorRecv

LifeSpec == LifeInit /\ [][LifeNext]_vars

\* ------------------------------------------------------------- tracesFromSpans
TraceIDs == {7, 9}
SpanIDs == {1, 2, 3}
\* pb.Span, by the two fields that tell spans apart.
Spans == [TraceID : TraceIDs, SpanID : SpanIDs]
SpanSeqs == UNION {[1..n -> Spans] : n \in 0..MaxSpans}

\* The orders in which a range over the map byID can visit its keys.
KeyOrders(ids) ==
    {o \in [1..Cardinality(ids) -> ids] : \A a, b \in DOMAIN o : a # b => o[a] # o[b]}
\* The indices of spans whose TraceID is id, in increasing order.
RECURSIVE IndicesOf(_, _, _)
IndicesOf(spans, id, k) ==
    IF k > Len(spans) THEN <<>>
    ELSE (IF spans[k].TraceID = id THEN <<k>> ELSE <<>>) \o IndicesOf(spans, id, k + 1)

\* tracesFromSpans: byID[s.TraceID] = append(byID[s.TraceID], &s) stores the address of
\* the loop variable s. A trace is a sequence of addresses and heap gives the span each
\* address holds when the function returns. In a build whose loop variable is one
\* variable for the whole loop, every address is that variable's (address 1), which
\* holds the last span; in a build with a variable per iteration, iteration k has
\* address k. The traces come in the order the range over byID visits the keys.
tracesFromSpans(spans, perIteration, order) ==
    LET addr(k) == IF perIteration THEN k ELSE 1
        byID == [id \in {spans[k].TraceID : k \in 1..Len(spans)} |->
                    [j \in 1..Len(IndicesOf(spans, id, 1)) |->
                        addr(IndicesOf(spans, id, 1)[j])]]
    IN [traces |-> [j \in 1..Len(order) |-> byID[order[j]]],
        heap |-> IF perIteration THEN [a \in 1..Len(spans) |-> spans[a]]
                 ELSE [a \in 1..(IF Len(spans) = 0 THEN 0 ELSE 1) |-> spans[Len(spans)]]]

\* decodeTraces for v01: the decoded spans are grouped.
TracesFromSpans ==
    /\ grp.pc = "decoded"
    /\ \E order \in KeyOrders({grp.spans[k].TraceID : k \in 1..Len(grp.spans)}) :
         LET res == tracesFromSpans(grp.spans, grp.perIteration, order)
         IN grp' = [grp EXCEPT !.pc = "grouped", !.traces = res.traces, !.heap = res.heap]
    /\ UNCHANGED <<rateLimiterResponse, req, Out, wk, spansOut, concIn, Stats, refused,
                   recv, conf, proc, targetRate, wd, sd, fl, dk>>

\* A v01 request whose body decoded to any spans of SpanSeqs, in either build.
GroupInit ==
    /\ rateLimiterResponse \in {StatusOK, StatusTooManyRequests}
    /\ req = [r \in Reqs |-> IF r = 1
                             THEN [IdleReq EXCEPT !.pc = "handle", !.v = "v01",
                                                  !.mt = "application/json"]
                             ELSE IdleReq]
    /\ Out = <<>>
    /\ wk = [w \in Workers |-> IdleWorker]
    /\ spansOut = <<>>
    /\ concIn = <<>>
    /\ Stats = [t \in Tags |-> [c \in CounterNames |-> 0]]
    /\ refused = 0
    /\ recv = [t \in TraceIds |-> 0]
    /\ conf = NoLimits
    /\ proc = Running
    /\ targetRate = One
    /\ wd = NoTick
    /\ sd = NoShutdown
    /\ fl = NoFlush
    /\ dk = NoDocker
    /\ \E spans \in SpanSeqs, b \in BOOLEAN :
         grp = [NoGroup EXCEPT !.pc = "decoded", !.spans = spans, !.perIteration = b]

GroupNext == TracesFromSpans

GroupSpec == GroupInit /\ [][GroupNext]_vars

\* ------------------------------------------------------------- DockerUtil
\* What the calls of the DockerUtil leave alone.
agent == <<rateLimiterResponse, req, Out, wk, spansOut, concIn, Stats, refused, recv,
           conf, proc, targetRate, wd, sd, grp, fl>>

ContainerRunningState == "running"
\* The order in which the daemon lists the containers.
IdOrder == <<"a", "b">>
\* d.cfg.filter.IsExcluded(c.Names[0], image): the filter excludes container b.
FilterExcluded == {"b"}
IsExcluded(id) == id \in FilterExcluded
\* c.Image, the key of imageNameBySha.
ImageOf(id) == <<"image", id>>
\* The cfg a caller passes: nil, or the two flags.
Cfgs == {NoCfg} \cup [nil : {FALSE}, IncludeExited : BOOLEAN, FlagExcluded : BOOLEAN]
Vias == {"ListContainers", "dockerContainers"}
\* invalidationInterval, in clock ticks.
invalidationInterval == 1

\* d.cli.ContainerList(ctx, ContainerListOptions{All: all}): the running containers,
\* and the exited ones too when all is set.
ContainerList(world, all) ==
    SelectSeq([k \in 1..Len(IdOrder) |-> [ID |-> IdOrder[k], State |-> world[IdOrder[k]]]],
              LAMBDA c : c.State = ContainerRunningState \/ (all /\ c.State = "exited"))

\* &containers.Container{...}: the fields the callers look at, and what ListContainers
\* and UpdateContainerMetrics have filled so far.
Container(c, excluded) ==
    [ID |-> c.ID, State |-> c.State, Excluded |-> excluded,
     cgroups |-> FALSE, limits |-> FALSE, cgMetrics |-> FALSE, netMetrics |-> FALSE]

IDsOf(cList) == {cList[k].ID : k \in 1..Len(cList)}

\* ListContainers (ScrapeAllCgroups, then dockerContainers) or dockerContainers called
\* directly, up to the ContainerList query.
DockerCallOn(c, ViaSet, CfgSet) ==
    /\ dk.call[c].pc = "idle"
    /\ \E via \in ViaSet, cfg \in CfgSet, outcome \in {"ok", "cgroups error", "list error"} :
         LET k == [IdleCall EXCEPT !.via = via, !.cfg = cfg] IN
         dk' = [dk EXCEPT !.call[c] =
                  IF via = "ListContainers" /\ outcome = "cgroups error"
                  THEN [k EXCEPT !.pc = "returned", !.err = "could not get cgroups"]
                  ELSE IF cfg.nil
                  THEN [k EXCEPT !.pc = "returned", !.err = "configuration is nil"]
                  ELSE IF outcome = "list error"
                  THEN [k EXCEPT !.pc = "returned", !.err = "error listing containers"]
                  ELSE [k EXCEPT !.pc = "loop", !.i = 1,
                                 !.cList = ContainerList(dk.world, cfg.IncludeExited)]]
    /\ UNCHANGED agent

\* The loop of dockerContainers is at a running container and CollectNetwork is set.
NeedsInspect(k) ==
    /\ dk.CollectNetwork
    /\ k.pc = "loop" /\ k.i <= Len(k.cList)
    /\ k.cList[k.i].State = ContainerRunningState

\* The lookup made without waiting for the mutex.
DockerLockNoMutex(c) ==
    LET k == dk.call[c] IN
    /\ NeedsInspect(k)
    /\ dk' = [dk EXCEPT !.lock = c, !.call[c].pc = "locked",
                        !.call[c].absent = k.cList[k.i].ID \notin dk.networkMappings]
    /\ UNCHANGED agent

\* dockerContainers: d.Lock() and the lookup _, ok := d.networkMappings[c.ID].
DockerLock(c) ==
    LET k == dk.call[c] IN
    /\ NeedsInspect(k)
    /\ dk.lock = 0
    /\ dk' = [dk EXCEPT !.lock = c, !.call[c].pc = "locked",
                        !.call[c].absent = k.cList[k.i].ID \notin dk.networkMappings]
    /\ UNCHANGED agent

\* dockerContainers: when the entry is absent, d.Inspect; on an error d.Unlock() and
\* continue, else the entry is inserted; d.Unlock().
DockerInspect(c) ==
    LET k == dk.call[c]
        id == k.cList[k.i].ID
    IN /\ k.pc = "locked"
       /\ IF k.absent
          THEN \E ok \in BOOLEAN :
                 dk' = IF ok
                       THEN [dk EXCEPT !.networkMappings = @ \cup {id}, !.lock = 0,
                                       !.call[c].pc = "build", !.call[c].absent = FALSE]
                       ELSE [dk EXCEPT !.lock = 0, !.call[c].pc = "loop",
                                       !.call[c].i = @ + 1, !.call[c].absent = FALSE]
          ELSE dk' = [dk EXCEPT !.lock = 0, !.call[c].pc = "build"]
       /\ UNCHANGED agent

\* dockerContainers appending every container, whatever the filter and the flag say.
DockerBuildKeepExcluded(c) ==
    LET k == dk.call[c] IN
    /\ k.pc = "build" \/ (k.pc = "loop" /\ k.i <= Len(k.cList) /\ ~NeedsInspect(k))
    /\ \E cached \in BOOLEAN :
         /\ cached => dk.lock = 0
         /\ LET cont == k.cList[k.i]
                excluded == IsExcluded(cont.ID)
            IN dk' = [dk EXCEPT
                        !.imageNameBySha = IF cached THEN @ \cup {ImageOf(cont.ID)} ELSE @,
                        !.call[c].pc = "loop", !.call[c].i = @ + 1,
                        !.call[c].ret = Append(@, Container(cont, excluded))]
    /\ UNCHANGED agent

\* dockerContainers: the rest of one iteration. ResolveImageName (which fills
\* imageNameBySha under the mutex when the image is given by its sha), the filter, and
\* the container appended to ret unless it is excluded and cfg.FlagExcluded is false.
DockerBuild(c) ==
    LET k == dk.call[c] IN
    /\ k.pc = "build" \/ (k.pc = "loop" /\ k.i <= Len(k.cList) /\ ~NeedsInspect(k))
    /\ \E cached \in BOOLEAN :
         /\ cached => dk.lock = 0
         /\ LET cont == k.cList[k.i]
                excluded == IsExcluded(cont.ID)
            IN dk' = [dk EXCEPT
                        !.imageNameBySha = IF cached THEN @ \cup {ImageOf(cont.ID)} ELSE @,
                        !.call[c].pc = "loop", !.call[c].i = @ + 1,
                        !.call[c].ret = IF excluded /\ ~k.cfg.FlagExcluded THEN @
                                        ELSE Append(@, Container(cont, excluded))]
    /\ UNCHANGED agent

\* dockerContainers after the loop: resolveDockerNetworks under the mutex when
\* CollectNetwork is set (it rewrites the values of networkMappings, not its keys).
DockerResolveNetworks(c) ==
    LET k == dk.call[c] IN
    /\ k.pc = "loop" /\ k.i > Len(k.cList)
    /\ dk.CollectNetwork => dk.lock = 0
    /\ dk' = [dk EXCEPT !.call[c].pc = "invalidate"]
    /\ UNCHANGED agent

\* d.lastInvalidate.Add(invalidationInterval).After(time.Now())
CleanupDue == dk.lastInvalidate + invalidationInterval > dk.now

\* The call after the cleanup test: dockerContainers returns ret.
AfterCleanup(k) == IF k.via = "ListContainers" THEN "cgroups" ELSE "returned"

\* dockerContainers: the test on lastInvalidate and, when it passes, cleanupCaches(cList),
\* which under the mutex deletes the entries of networkMappings and imageNameBySha that
\* are not in cList; return ret, nil.
DockerCleanup(c) ==
    LET k == dk.call[c] IN
    /\ k.pc = "invalidate"
    /\ IF CleanupDue
       THEN /\ dk.lock = 0
            /\ dk' = [dk EXCEPT
                        !.networkMappings = @ \cap IDsOf(k.cList),
                        !.imageNameBySha = @ \cap {ImageOf(id) : id \in IDsOf(k.cList)},
                        !.call[c].pc = AfterCleanup(k)]
       ELSE dk' = [dk EXCEPT !.call[c].pc = AfterCleanup(k)]
    /\ UNCHANGED agent

\* A container ListContainers and UpdateContainerMetrics work on.
Measured(x) == x.State = ContainerRunningState /\ ~x.Excluded

\* ListContainers: the loop over cList. cg is the set of ids ScrapeAllCgroups found,
\* limErr the ids on which FillCgroupLimits fails.
ListContainersCgroups(c) ==
    LET k == dk.call[c] IN
    /\ k.pc = "cgroups"
    /\ \E cg \in SUBSET ContainerIDs, limErr \in SUBSET ContainerIDs :
         dk' = [dk EXCEPT !.call[c].pc = "metrics", !.call[c].i = 1,
                  !.call[c].ret = [j \in 1..Len(k.ret) |->
                      IF Measured(k.ret[j]) /\ k.ret[j].ID \in cg
                      THEN [k.ret[j] EXCEPT !.cgroups = TRUE,
                                            !.limits = k.ret[j].ID \notin limErr]
                      ELSE k.ret[j]]]
    /\ UNCHANGED agent

\* UpdateContainerMetrics: one iteration. FillCgroupMetrics, then with CollectNetwork
\* the read of networkMappings under the mutex and FillNetworkMetrics.
UpdateContainerMetrics(c) ==
    LET k == dk.call[c] IN
    /\ k.pc = "metrics" /\ k.i <= Len(k.ret)
    /\ IF ~Measured(k.ret[k.i])
       THEN dk' = [dk EXCEPT !.call[c].i = @ + 1]
       ELSE \E mErr \in BOOLEAN, nErr \in BOOLEAN :
              IF mErr
              THEN dk' = [dk EXCEPT !.call[c].i = @ + 1]
              ELSE /\ dk.CollectNetwork => dk.lock = 0
                   /\ dk' = [dk EXCEPT !.call[c].i = @ + 1,
                               !.call[c].ret[k.i].cgMetrics = TRUE,
                               !.call[c].ret[k.i].netMetrics = dk.CollectNetwork /\ ~nErr]
    /\ UNCHANGED agent

\* ListContainers: return cList, err.
ListContainersReturn(c) ==
    LET k == dk.call[c] IN
    /\ k.pc = "metrics" /\ k.i > Len(k.ret)
    /\ dk' = [dk EXCEPT !.call[c].pc = "returned"]
    /\ UNCHANGED agent

\* The caller is done with the result.
CallDone(c) ==
    /\ dk.call[c].pc = "returned"
    /\ dk' = [dk EXCEPT !.call[c] = IdleCall]
    /\ UNCHANGED agent

\* The host: a container is started, exits, is removed; the clock advances.
ContainerStarts(id) ==
    /\ dk.world[id] # ContainerRunningState
    /\ dk' = [dk EXCEPT !.world[id] = ContainerRunningState]
    /\ UNCHANGED agent

ContainerExits(id) ==
    /\ dk.world[id] = ContainerRunningState
    /\ dk' = [dk EXCEPT !.world[id] = "exited"]
    /\ UNCHANGED agent

ContainerRemoved(id) ==
    /\ dk.world[id] = "exited"
    /\ dk' = [dk EXCEPT !.world[id] = "gone"]
    /\ UNCHANGED agent

TimePasses ==
    /\ dk.now < MaxNow
    /\ dk' = [dk EXCEPT !.now = @ + 1]
    /\ UNCHANGED agent

\* The agent's pipeline at rest, the DockerUtil just set up.
DockerInitOn(CollectNetworks) ==
    /\ rateLimiterResponse = StatusOK
    /\ req = [r \in Reqs |-> IdleReq]
    /\ Out = <<>>
    /\ wk = [w \in Workers |-> IdleWorker]
    /\ spansOut = <<>>
    /\ concIn = <<>>
    /\ Stats = ZeroStats
    /\ refused = 0
    /\ recv = [t \in TraceIds |-> 0]
    /\ conf = NoLimits
    /\ proc = Running
    /\ targetRate = One
    /\ wd = NoTick
    /\ sd = NoShutdown
    /\ grp = NoGroup
    /\ fl = NoFlush
    /\ \E cn \in CollectNetworks : dk = [NoDocker EXCEPT !.CollectNetwork = cn]

\* One caller, every cfg, through ListContainers or dockerContainers.
ListCallers == {1}

ListNext ==
    \/ \E c \in ListCallers : DockerCallOn(c, Vias, Cfgs)
    \/ \E c \in ListCallers : DockerLock(c)
    \/ \E c \in ListCallers : DockerInspect(c)
    \/ \E c \in ListCallers : DockerBuild(c)
    \/ \E c \in ListCallers : DockerResolveNetworks(c)
    \/ \E c \in ListCallers : DockerCleanup(c)
    \/ \E c \in ListCallers : ListContainersCgroups(c)
    \/ \E c \in ListCallers : UpdateContainerMetrics(c)
    \/ \E c \in ListCallers : ListContainersReturn(c)
    \/ \E c \in ListCallers : CallDone(c)
    \/ \E id \in ContainerIDs : ContainerStarts(id)
    \/ \E id \in ContainerIDs : ContainerExits(id)
    \/ \E id \in ContainerIDs : ContainerRemoved(id)
    \/ TimePasses

ListSpec == DockerInitOn(BOOLEAN) /\ [][ListNext]_vars

\* NumCallers goroutines calling dockerContainers at the same time, with CollectNetwork
\* set and the excluded containers flagged.
FlagCfgs == {[nil |-> FALSE, IncludeExited |-> FALSE, FlagExcluded |-> TRUE]}

ConcurrentNext ==
    \/ \E c \in Callers : DockerCallOn(c, {"dockerContainers"}, FlagCfgs)
    \/ \E c \in Callers : DockerLock(c)
    \/ \E c \in Callers : DockerInspect(c)
    \/ \E c \in Callers : DockerBuild(c)
    \/ \E c \in Callers : DockerResolveNetworks(c)
    \/ \E c \in Callers : DockerCleanup(c)
    \/ \E c \in Callers : CallDone(c)
    \/ \E id \in ContainerIDs : ContainerStarts(id)
    \/ \E id \in ContainerIDs : ContainerExits(id)
    \/ \E id \in ContainerIDs : ContainerRemoved(id)
    \/ TimePasses

ConcurrentSpec == DockerInitOn({TRUE}) /\ [][ConcurrentNext]_vars

\* One goroutine that calls dockerContainers again and again while the clock advances;
\* calls in progress go on, and the clock moves until the last tick followed.
CacheCallers == {1}

CacheNext ==
    \/ \E c \in CacheCallers : DockerCallOn(c, {"dockerContainers"}, FlagCfgs)
    \/ \E c \in CacheCallers : DockerLock(c)
    \/ \E c \in CacheCallers : DockerInspect(c)
    \/ \E c \in CacheCallers : DockerBuild(c)
    \/ \E c \in CacheCallers : DockerResolveNetworks(c)
    \/ \E c \in CacheCallers : DockerCleanup(c)
    \/ \E c \in CacheCallers : CallDone(c)
    \/ \E id \in ContainerIDs : ContainerStarts(id)
    \/ \E id \in ContainerIDs : ContainerExits(id)
    \/ \E id \in ContainerIDs : ContainerRemoved(id)
    \/ TimePasses

CacheFairness ==
    /\ \A c \in CacheCallers :
          /\ WF_vars(DockerCallOn(c, {"dockerContainers"}, FlagCfgs))
          /\ WF_vars(DockerLock(c))
          /\ WF_vars(DockerInspect(c))
          /\ WF_vars(DockerBuild(c))
          /\ WF_vars(DockerResolveNetworks(c))
          /\ WF_vars(DockerCleanup(c))
          /\ WF_vars(CallDone(c))
    /\ WF_vars(TimePasses)

CacheSpec == DockerInitOn({TRUE}) /\ [][CacheNext]_vars /\ CacheFairness

\* ------------------------------------------------------------- one call of Process
\* The pipeline state in which request 1 (v03, JSON) was admitted with one trace of
\* s spans, answered, and its trace enqueued: Process is then explored on every
\* content and every answer of ProcessInputs.
AcceptedOne(s) ==
    [IdleReq EXCEPT !.pc = "done", !.v = "v03", !.body = "read", !.n = 1, !.i = 2,
                    !.returned = TRUE,
                    !.w = [status |-> StatusOK, body |-> "OK"]]

AgentInit ==
    /\ rateLimiterResponse \in {StatusOK, StatusTooManyRequests}
    /\ \E s \in SpanCounts :
         /\ req = [r \in Reqs |-> IF r = 1 THEN AcceptedOne(s) ELSE IdleReq]
         /\ Out = <<[id |-> <<1, 1>>, spans |-> s]>>
         /\ Stats = [t \in Tags |-> [c \in CounterNames |->
                       IF t = "client" /\ c \in {"TracesReceived", "TracesBytes",
                                                 "PayloadAccepted"} THEN 1
                       ELSE IF t = "client" /\ c = "SpansReceived" THEN s
                       ELSE 0]]
    /\ wk = [w \in Workers |-> IdleWorker]
    /\ spansOut = <<>>
    /\ concIn = <<>>
    /\ refused = 0
    /\ recv = [t \in TraceIds |-> 0]
    /\ EnvInit

ProcessAnyTrace(w) == ProcessTraceOn(w, ProcessInputs)

AgentNext ==
    \/ \E w \in Workers : WorkRecv(w)
    \/ \E w \in Workers : ProcessAnyTrace(w)
    \/ \E w \in Workers : SendSpans(w)
    \/ \E w \in Workers : SendConcentrator(w)
    \/ \E w \in Workers : ProcessReturn(w)
    \/ TraceWriterRecv
    \/ ConcentratorRecv

AgentSpec == AgentInit /\ [][AgentNext]_vars

\* AgentInit is a state of the pipeline: Spec reaches it.
AgentInitReached ==
    /\ req[1] = AcceptedOne(1)
    /\ \A r \in Reqs \ {1} : req[r] = IdleReq
    /\ Out = <<[id |-> <<1, 1>>, spans |-> 1]>>
    /\ Stats["client"]["SpansReceived"] = 1
    /\ Stats["client"]["TracesReceived"] = 1
    /\ \A w \in Workers : wk[w] = IdleWorker
    /\ refused = 0 /\ spansOut = <<>> /\ concIn = <<>>

\* ------------------------------------------------------------- properties of Process
Explicit(root) == KeySamplingPriority \in DOMAIN root
Negative(root) == Explicit(root) /\ root[KeySamplingPriority] < 0
SamplersRan(f) == \E op \in SamplerOps : Ran(f, op)
\* A frame that is past the local part of Process on a trace the Blacklister allowed.
Allowed(f) == f.pc \in {"sendSpans", "sendConc", "done"} /\ f.spans > 0 /\ f.in.allowed
\* What the consulted samplers answered, from the answers alone.
KeptByAnswers(in) == (Explicit(in.root) /\ in.resP[1]) \/ in.resS[1]

\* C1: a non-empty trace whose root the Blacklister allows gets exactly one Input sent
\* to the Concentrator by the time Process returns, never more, whatever its priority
\* and whatever the samplers and the event extractor answered.
C1_OneInputPerAllowedTrace ==
    \A w \in Workers :
        /\ Count(wk[w], "Concentrator.In<-") <= 1
        /\ (Allowed(wk[w]) /\ wk[w].pc = "done")
              => Count(wk[w], "Concentrator.In<-") = 1

C1_Witness ==
    \E w \in Workers :
        /\ Allowed(wk[w]) /\ wk[w].pc = "done"
        /\ Negative(wk[w].in.root)
        /\ Count(wk[w], "Concentrator.In<-") = 1

\* C2: the samplers and the event extractor run iff the root's priority is absent or
\* >= 0; a trace with an explicit negative priority is never sent on spansOut and has
\* no event extracted.
C2_SamplersIffNotNegative ==
    \A w \in Workers :
        Allowed(wk[w]) =>
            /\ SamplersRan(wk[w]) <=> ~Negative(wk[w].in.root)
            /\ Ran(wk[w], "EventProcessor.Process") <=> ~Negative(wk[w].in.root)
            /\ Negative(wk[w].in.root) =>
                  /\ wk[w].pc # "sendSpans"
                  /\ ~Ran(wk[w], "spansOut<-")
                  /\ wk[w].ss.events = 0
                  /\ \A k \in 1..Len(spansOut) : spansOut[k].id # wk[w].id

C2_Witness ==
    \E w \in Workers :
        /\ Allowed(wk[w]) /\ wk[w].pc = "done"
        /\ ~Explicit(wk[w].in.root)
        /\ SamplersRan(wk[w]) /\ Ran(wk[w], "EventProcessor.Process")
        /\ Ran(wk[w], "spansOut<-")

\* C3: for a trace that reaches sample, a message is sent on spansOut iff the samplers
\* kept the trace or at least one event was extracted; the message carries the spans
\* iff the trace was kept, and the events.
C3_SentIffKeptOrEvents ==
    \A w \in Workers :
        Ran(wk[w], "EventProcessor.Process") =>
            LET kept == KeptByAnswers(wk[w].in)
                nev == wk[w].in.ev[1]
            IN /\ wk[w].pc = "sendSpans" => (kept \/ nev > 0)
               /\ wk[w].pc \in {"sendConc", "done"} =>
                     (Ran(wk[w], "spansOut<-") <=> (kept \/ nev > 0))
               /\ Count(wk[w], "spansOut<-") <= 1
               /\ \A k \in 1..Len(spansOut) :
                     spansOut[k].id = wk[w].id =>
                        /\ spansOut[k].trace = kept
                        /\ spansOut[k].events = nev

C3_Witness ==
    \E w \in Workers, k \in 1..Len(spansOut) :
        /\ Ran(wk[w], "EventProcessor.Process")
        /\ spansOut[k].id = wk[w].id
        /\ ~KeptByAnswers(wk[w].in)
        /\ ~spansOut[k].trace /\ spansOut[k].events > 0

\* C4: runSamplers consults the PrioritySampler iff the root has an explicit priority,
\* and exactly one score sampler: the ErrorsScoreSampler iff a span has error != 0,
\* the ScoreSampler otherwise; the decision is kept_priority OR kept_score.
C4_SamplerCoverage ==
    \A w \in Workers :
        SamplersRan(wk[w]) =>
            /\ Ran(wk[w], "PrioritySampler.Add") <=> Explicit(wk[w].in.root)
            /\ Ran(wk[w], "ErrorsScoreSampler.Add") <=> wk[w].in.err
            /\ Ran(wk[w], "ScoreSampler.Add") <=> ~wk[w].in.err
            /\ \A op \in SamplerOps : Count(wk[w], op) <= 1
            /\ wk[w].sampled = KeptByAnswers(wk[w].in)

C4_Witness ==
    \E w \in Workers :
        /\ Explicit(wk[w].in.root) /\ wk[w].in.err
        /\ Ran(wk[w], "PrioritySampler.Add") /\ Ran(wk[w], "ErrorsScoreSampler.Add")
        /\ wk[w].in.resP[1] /\ ~wk[w].in.resS[1]
        /\ wk[w].sampled

\* C5 as stated: after Process, the root's global rate is client x pre-sample x
\* combined sampler rate for every trace runSamplers saw, kept or not.
C5_RateComposition ==
    \A w \in Workers :
        (Allowed(wk[w]) /\ wk[w].pc = "done" /\ SamplersRan(wk[w])) =>
            GetGlobalRate(wk[w].root)
                = RMul(RMul(GetGlobalRate(wk[w].in.root), wk[w].in.rl), wk[w].rate)

\* C5 amended: the combined sampler rate is a factor only when the samplers kept the
\* trace; otherwise the global rate is client x pre-sample.
C5_RateCompositionWhenKept ==
    \A w \in Workers :
        (Allowed(wk[w]) /\ wk[w].pc = "done") =>
            LET client == GetGlobalRate(wk[w].in.root)
                pre == wk[w].in.rl
            IN GetGlobalRate(wk[w].root)
                  = IF SamplersRan(wk[w]) /\ KeptByAnswers(wk[w].in)
                    THEN RMul(RMul(client, pre), wk[w].rate)
                    ELSE RMul(client, pre)

C5_Witness ==
    \E w \in Workers :
        /\ Allowed(wk[w]) /\ wk[w].pc = "done"
        /\ SamplersRan(wk[w]) /\ KeptByAnswers(wk[w].in)
        /\ GetGlobalRate(wk[w].in.root) = Half /\ wk[w].in.rl = Half
        /\ wk[w].rate = <<3, 4>>
        /\ GetGlobalRate(wk[w].root) = <<3, 16>>

\* C6 as stated: the trace writer and the Concentrator never both hold references to
\* the spans of one trace.
C6_SingleOwner ==
    \A w \in Workers : ~({"writer", "concentrator"} \subseteq wk[w].refs)

\* C6 amended: the worker hands the spans to the trace writer (iff the samplers kept
\* the trace) and to the Concentrator, once each, and writes to no span after its
\* first send.
C6_SharedReadOnly ==
    \A w \in Workers :
        /\ wk[w].refs \subseteq {"worker", "writer", "concentrator"}
        /\ Count(wk[w], "spansOut<-") <= 1
        /\ Count(wk[w], "Concentrator.In<-") <= 1
        /\ "writer" \in wk[w].refs <=> (Ran(wk[w], "spansOut<-") /\ KeptByAnswers(wk[w].in))
        /\ "concentrator" \in wk[w].refs <=> Ran(wk[w], "Concentrator.In<-")
        /\ \A j, k \in 1..Len(wk[w].log) :
              (j < k /\ wk[w].log[j] \in SendOps) => wk[w].log[k] \notin WriteOps

C6_Witness ==
    \E w \in Workers :
        /\ wk[w].pc = "done"
        /\ wk[w].refs = {"worker", "writer", "concentrator"}

\* ------------------------------------------------------------- properties of the receiver
ExpectedReply(v) == IF v = "v04" THEN "rate_by_service" ELSE "OK"
Enqueued(r) == \/ \E k \in 1..Len(Out) : Out[k].id[1] = r
               \/ \E t \in TraceIds : t[1] = r /\ recv[t] > 0
\* The request's traces are being normalized or sent, or have been.
Started(r) == req[r].pc \in {"loop", "send", "done"} \/ req[r].i > 0 \/ Enqueued(r)
\* Trace t passed normalization and waits to be sent on Out.
Pending(t) == req[t[1]].pc = "send" /\ req[t[1]].i = t[2]

\* C7 as stated: while Out is full a handler whose payload still has a trace to
\* enqueue has not returned (it blocks on the send).
C7_HandlersBlockWhenFull ==
    \A r \in Reqs : (req[r].pc = "send" /\ Len(Out) = RawTraceCap) => ~req[r].returned

\* C7 amended: the send that blocks on a full Out is the one of the processTraces
\* goroutine: Out never exceeds its capacity, a goroutine at a full Out keeps its trace
\* and its place until the send succeeds, and its handler has already replied and
\* returned, so replies are not held back by the channel.
C7_GoroutineBlocksWhenFull ==
    /\ [](Len(Out) <= RawTraceCap)
    /\ [][\A r \in Reqs : req[r].pc = "send" =>
             /\ req[r].returned
             /\ req[r].w = [status |-> StatusOK, body |-> ExpectedReply(req[r].v)]
             /\ Len(Out) = RawTraceCap => req'[r] = req[r]
             /\ req'[r] # req[r] =>
                   Out' = Append(Out, [id |-> <<r, req[r].i>>, spans |-> req[r].cur])
      ]_vars

C7_Witness ==
    \E r \in Reqs :
        /\ req[r].pc = "send" /\ Len(Out) = RawTraceCap
        /\ req[r].full /\ req[r].returned
        /\ req[r].w.status = StatusOK

\* C8: under fair scheduling and with no cancellation, a trace that passed
\* normalization is eventually received from Out by a worker, and by one worker only.
C8_NoTraceLost ==
    \A t \in TraceIds : [](recv[t] <= 1) /\ (Pending(t) ~> (recv[t] = 1))

C8_Witness ==
    /\ \A r \in Reqs, i \in 1..MaxTraces : recv[<<r, i>>] = 1
    /\ \A r \in Reqs : req[r].pc = "done"
    /\ Out = <<>>

\* C9: once any trace of a request is normalized or enqueued, the request's success
\* reply (rate_by_service for v04, OK for v01..v03) has been written.
C9_ReplyBeforeProcessing ==
    \A r \in Reqs :
        /\ Started(r) => req[r].w = [status |-> StatusOK, body |-> ExpectedReply(req[r].v)]
        /\ req[r].w = NoResp => (req[r].i = 0 /\ ~Enqueued(r))

C9_Witness ==
    \E r \in Reqs :
        /\ req[r].pc = "send" /\ req[r].v = "v04"
        /\ req[r].w.body = "rate_by_service"

\* C10: a refused request has its body drained, gets rateLimiterResponse and the
\* per-version reply, adds one to the refused counter, and does nothing else: no
\* decoding, no trace enqueued, no TagStats counter changed.
C10_RefusalFrame ==
    /\ [][\A r \in Reqs : (req[r].pc = "handle" /\ req'[r].pc = "refused") =>
             /\ req'[r].body = "drained"
             /\ req'[r].w = [status |-> rateLimiterResponse,
                             body |-> ExpectedReply(req[r].v)]
             /\ req'[r].returned
             /\ refused' = refused + 1
             /\ req'[r].n = 0
             /\ Out' = Out
             /\ Stats' = Stats
      ]_vars
    /\ [](\A r \in Reqs : req[r].pc = "refused" =>
             /\ ~Enqueued(r)
             /\ req[r].i = 0)

C10_Witness ==
    \E r \in Reqs :
        /\ req[r].pc = "refused"
        /\ req[r].w = [status |-> StatusTooManyRequests, body |-> "rate_by_service"]
        /\ refused > 0

\* ------------------------------------------------------------- input errors
Msgpack01(r) == req[r].mt = "application/msgpack" /\ req[r].v \in {"v01", "v02"}
\* The header is present and strconv.Atoi fails on it.
Malformed(h) == h # "" /\ Atoi(h)[2]
IsError(w) == w.status >= 400 /\ w.body = "error"

\* C11: a request is answered by the wrapper with an error, without reaching
\* handleTraces (no limiter query, no decoding, no trace enqueued, no counter), exactly
\* when it is msgpack on v01 or v02; msgpack on v03 and v04 reaches the handler.
C11_MsgpackRejectedEarly ==
    /\ [](\A r \in Reqs :
            /\ req[r].pc = "unsupported" =>
                 /\ Msgpack01(r)
                 /\ IsError(req[r].w)
                 /\ req[r].body = "unread" /\ req[r].n = 0 /\ req[r].i = 0
                 /\ ~Enqueued(r)
            /\ req[r].pc = "handle" => ~Msgpack01(r))
    /\ [][\A r \in Reqs :
            /\ (req[r].pc = "new" /\ req'[r].pc = "unsupported") =>
                  (refused' = refused /\ Stats' = Stats /\ Out' = Out)
            /\ req[r].pc = "unsupported" => req'[r] = req[r]
      ]_vars

C11_Witness ==
    \E r \in Reqs, q \in Reqs :
        /\ req[r].pc = "unsupported" /\ req[r].w.status = StatusUnsupportedMediaType
        /\ req[q].pc = "handle" /\ req[q].mt = "application/msgpack" /\ req[q].v = "v03"

\* C12: a decode failure of an admitted request is answered with an error, adds
\* traceCount(header) to DecodingError and changes no other counter, enqueues no
\* trace, and ends the request without a success reply.
C12_DecodeErrorFrame ==
    /\ [][\A r \in Reqs : (req[r].pc = "handle" /\ req'[r].pc = "decodeError") =>
             /\ IsError(req'[r].w)
             /\ Stats' = AddCounter(Stats, "client", "DecodingError",
                                    IF req'[r].h = "" THEN 0 ELSE Atoi(req'[r].h)[1])
             /\ Out' = Out
             /\ refused' = refused
      ]_vars
    /\ [][\A r \in Reqs : req[r].pc = "decodeError" => req'[r] = req[r]]_vars
    /\ [](\A r \in Reqs : req[r].pc = "decodeError" =>
             /\ ~Enqueued(r) /\ req[r].i = 0 /\ req[r].n = 0
             /\ IsError(req[r].w))

C12_Witness ==
    \E r \in Reqs :
        /\ req[r].pc = "decodeError" /\ req[r].h = "1"
        /\ Stats["client"]["DecodingError"] = 1
        /\ Stats["client"]["TracesReceived"] = 0
        /\ Stats["client"]["PayloadAccepted"] = 0

\* C13 as stated: a request with a malformed trace-count header is answered with a
\* 4xx status.
C13_MalformedCountIsInputError ==
    \A r \in Reqs :
        (req[r].pc = "replied" /\ Malformed(req[r].h)) => req[r].w.status \in 400..499

\* C13 amended: a malformed trace-count header counts as 0, like an absent one: the
\* request is decoded and answered as any other, and a decode failure of such a request
\* adds nothing to DecodingError.
C13_MalformedCountIsZero ==
    /\ [](\A r \in Reqs : (req[r].pc = "replied" /\ Malformed(req[r].h)) =>
             req[r].w = [status |-> StatusOK, body |-> ExpectedReply(req[r].v)])
    /\ [][\A r \in Reqs :
            (req[r].pc = "handle" /\ req'[r].pc = "decodeError" /\ Malformed(req'[r].h))
               => Stats' = Stats
      ]_vars

C13_Witness ==
    \E r \in Reqs, q \in Reqs :
        /\ req[r].pc = "replied" /\ Malformed(req[r].h) /\ req[r].n > 0
        /\ req[r].w.status = StatusOK
        /\ req[q].pc = "decodeError" /\ Malformed(req[q].h)

\* ------------------------------------------------------------- per-trace recovery
SpansReceived == Stats["client"]["SpansReceived"]
SpansDropped == Stats["client"]["SpansDropped"]

\* C14: in processTraces a trace that fails normalization adds its span count to
\* SpansReceived and to SpansDropped and is not enqueued, and the loop goes on to the
\* next trace; a trace that passes adds its span count to SpansReceived only and is the
\* next one appended to Out, in payload order; the loop ends only after the last trace.
\* Every step keeps SpansReceived = SpansDropped + spans enqueued + spans about to be.
C14_PerTraceRecovery ==
    /\ [][\A r \in Reqs :
            LET dSR == SpansReceived' - SpansReceived
                dSD == SpansDropped' - SpansDropped
                dOut == IF Len(Out') > Len(Out) THEN Out'[Len(Out')].spans ELSE 0
            IN /\ req'[r] # req[r] => dSR = dSD + (req'[r].cur - req[r].cur) + dOut
               /\ (req[r].pc = "loop" /\ req'[r].pc = "loop" /\ req'[r] # req[r]) =>
                     /\ req'[r].i = req[r].i + 1
                     /\ dSD = dSR
                     /\ Out' = Out
               /\ (req[r].pc = "loop" /\ req'[r].pc = "send") =>
                     /\ req'[r].i = req[r].i
                     /\ req'[r].cur = dSR /\ dSD = 0
                     /\ Out' = Out
               /\ (req[r].pc = "send" /\ req'[r] # req[r]) =>
                     /\ Out' = Append(Out, [id |-> <<r, req[r].i>>, spans |-> req[r].cur])
                     /\ req'[r].pc = "loop" /\ req'[r].i = req[r].i + 1
                     /\ Stats' = Stats
               /\ (req[r].pc = "loop" /\ req'[r].pc = "done") => req[r].i = req[r].n + 1
      ]_vars
    /\ [](\A r \in Reqs :
            /\ req[r].pc = "done" => req[r].i = req[r].n + 1
            /\ \A k \in 1..Len(Out) : Out[k].id[1] = r => Out[k].id[2] < req[r].i
            /\ \A k \in 1..Len(Out), l \in 1..Len(Out) :
                  (k < l /\ Out[k].id[1] = r /\ Out[l].id[1] = r)
                     => Out[k].id[2] < Out[l].id[2])

C14_Witness ==
    /\ req[1].pc = "done" /\ req[1].n = MaxPayload
    /\ SpansDropped > 0
    /\ recv[<<1, 1>>] = 0
    /\ recv[<<1, 2>>] = 1
    /\ SpansReceived > SpansDropped

\* ------------------------------------------------------------- grouping of v01 spans
\* The spans a trace holds: each address read from the heap.
Deref(t) == [j \in 1..Len(t) |-> grp.heap[t[j]]]
\* The spans of the argument with trace id `id`, in their order.
RECURSIVE SpansOf(_, _)
SpansOf(spans, id) ==
    IF spans = <<>> THEN <<>>
    ELSE (IF Head(spans).TraceID = id THEN <<Head(spans)>> ELSE <<>>)
            \o SpansOf(Tail(spans), id)

\* C15: tracesFromSpans returns one trace per distinct trace_id, and each trace holds
\* exactly the argument's spans with that trace_id, with their own field values, so
\* every span of the argument is in exactly one trace.
C15_GroupedByTraceID ==
    grp.pc = "grouped" =>
        LET ids == {grp.spans[k].TraceID : k \in 1..Len(grp.spans)} IN
        /\ Len(grp.traces) = Cardinality(ids)
        /\ \A id \in ids : \E j \in 1..Len(grp.traces) :
              Deref(grp.traces[j]) = SpansOf(grp.spans, id)

\* ------------------------------------------------------------- watchdog
\* A step that is a watchdog call.
IsTick == wd' # wd
OverMemory == conf.MaxMemory > 0 /\ 2 * wd'.mem > 3 * conf.MaxMemory

\* C16: a watchdog call ends the process if and only if MaxMemory > 0 and the memory
\* reading is strictly above 1.5 x MaxMemory; it then has emitted the OOM counter and
\* flushed the metrics, in this order, before killProcess.
C16_OOMInterlock ==
    [][IsTick =>
          /\ (proc'.killed = "OOM") <=> OverMemory
          /\ proc'.killed = "OOM" =>
                /\ proc'.pc = "exited"
                /\ proc'.log = <<"receiver.oom_kill", "metrics.Flush", "killProcess">>
                /\ targetRate' = targetRate
          /\ ~OverMemory => proc' = proc
      ]_vars

C16_Witness ==
    /\ proc.killed = "OOM"
    /\ conf.MaxMemory = 2 /\ wd.mem = 4

\* C17: a watchdog call that does not end the process sets the target rate to
\* min(rateMem, rateCPU), a limit of 0 giving the rate 1; with both limits 0 the target
\* rate is always 1 and the watchdog never ends the process.
C17_TargetRateIsMin ==
    /\ [][(IsTick /\ proc'.killed # "OOM") =>
             /\ targetRate' = RMin(wd'.rateMem, wd'.rateCPU)
             /\ RLe(targetRate', wd'.rateMem) /\ RLe(targetRate', wd'.rateCPU)
             /\ conf.MaxMemory = 0 => wd'.rateMem = One
             /\ conf.MaxCPU = 0 => wd'.rateCPU = One
      ]_vars
    /\ []((conf.MaxMemory = 0 /\ conf.MaxCPU = 0) =>
             (targetRate = One /\ proc.killed # "OOM"))

C17_Witness ==
    /\ proc.pc = "running"
    /\ wd.rateMem = One /\ wd.rateCPU = Half
    /\ targetRate = Half
    /\ conf.MaxMemory = 2

\* ------------------------------------------------------------- termination, shutdown
ListenerErrors == {"Error creating tcp listener", "Error creating UDS listener"}
\* The variables the requests and the traces move.
pipeline == <<req, Out, wk, spansOut, concIn, Stats, refused, recv>>

\* C18: the process exits by killProcess only in Start, on a listener that cannot be
\* created, or in a watchdog call whose memory reading is over the interlock; a step
\* of a request or of a trace (refusal, decode error, normalization failure, blacklist
\* rejection, sampler outcome) never ends the process.
C18_OnlyStartAndInterlockKill ==
    /\ [][proc' # proc =>
             \/ proc.pc = "init" /\ proc'.pc = "running" /\ proc'.killed = ""
             \/ proc.pc = "init" /\ proc'.pc = "exited" /\ proc'.killed \in ListenerErrors
             \/ /\ proc.pc = "running" /\ proc'.pc = "exited" /\ proc'.killed = "OOM"
                /\ IsTick /\ OverMemory
      ]_vars
    /\ [][pipeline' # pipeline => proc' = proc]_vars
    /\ [](proc.pc = "exited" <=> proc.killed # "")

C18_Witness ==
    /\ proc.killed = "OOM"
    /\ refused + Stats["client"]["DecodingError"] + Stats["client"]["SpansDropped"]
         + Stats["empty"]["TracesFiltered"] > 0

\* C19: once HTTPReceiver.Stop has returned, which happens after every cancellation,
\* Receiver.Out is closed (nothing closes it later, and the workers exit only on a
\* closed Out), also when the handlers were not done by the 5 s deadline.
C19_StopClosesOut ==
    sd.stop \in {"returned nil", "returned err"} => sd.outClosed

\* C20: when the Concentrator is stopped after Receiver.Out was closed, every trace
\* that was on Out at the close has been processed to the end by a worker: Out is
\* empty and no worker is inside Process.
C20_WorkersDrainBeforeStop ==
    (sd.outClosed /\ "Concentrator" \in sd.stopped) =>
        /\ Out = <<>>
        /\ \A w \in Workers : wk[w].pc \in {"idle", "exited"}

\* ------------------------------------------------------------- order of the steps of Process
\* The writes to the spans that come before sampling.
PrepOps == {"Obfuscate", "Truncate", "Replace", "SetClientRate", "SetPreSampleRate",
            "ComputeTopLevel", "SetSublayersOnSpan"}
ConsumerOps == SamplerOps \cup {"Concentrator.In<-"}

\* C22: when a sampler's Add is called on a trace, and when its Input is sent to the
\* Concentrator, obfuscation, truncation, tag replacement, the client-rate and
\* pre-sample-rate annotation, top-level marking and the sublayers have all been done,
\* and none of them is done afterwards; after its first channel send the worker writes
\* to no span of the trace.
C22_SanitizedBeforeSampling ==
    \A w \in Workers :
        LET l == wk[w].log IN
        /\ \A k \in 1..Len(l) : l[k] \in ConsumerOps =>
              \A op \in PrepOps : \E j \in 1..(k - 1) : l[j] = op
        /\ \A j, k \in 1..Len(l) :
              (l[j] \in PrepOps /\ l[k] \in ConsumerOps \cup SendOps) => j < k
        /\ \A j, k \in 1..Len(l) :
              (l[j] \in SendOps /\ l[k] \in WriteOps) => k < j

C22_Witness ==
    \E w \in Workers :
        /\ wk[w].pc = "done"
        /\ Ran(wk[w], "PrioritySampler.Add") /\ Ran(wk[w], "ErrorsScoreSampler.Add")
        /\ Ran(wk[w], "spansOut<-") /\ Ran(wk[w], "Concentrator.In<-")
        /\ \A op \in PrepOps : Ran(wk[w], op)

\* The reads of the sampling priority from the root's Metrics: sampler.GetSamplingPriority
\* in Process, ProcessedTrace.GetSamplingPriority in runSamplers.
PriorityReads == {"GetSamplingPriority", "pt.GetSamplingPriority"}
Reads(f) == Cardinality({k \in 1..Len(f.log) : f.log[k] \in PriorityReads})

\* C23 as stated: the priority is read from the root's Metrics once for a trace; no
\* later step of Process, sample or runSamplers reads it again.
C23_PriorityReadOnce ==
    \A w \in Workers : Reads(wk[w]) <= 1

\* C23 amended: Process reads (priority, hasPriority) from the root first of all,
\* before the Blacklister and every write to the spans; the priority-class counter and
\* the gate of sample use that reading. runSamplers reads the presence of the priority
\* from the root once more, after the writes of Process and before any Add, and this
\* second reading, which agrees with the first, decides whether the PrioritySampler is
\* consulted.
C23_PriorityReadUpFrontAndInRunSamplers ==
    /\ [](\A w \in Workers :
            LET f == wk[w]
                l == f.log
                p == GetSamplingPriority(f.in.root)
            IN /\ l # <<>> =>
                    /\ l[1] = "GetSamplingPriority"
                    /\ f.priority = p[1] /\ f.hasPriority = p[2]
               /\ Count(f, "GetSamplingPriority") <= 1
               /\ Count(f, "pt.GetSamplingPriority") <= 1
               /\ Allowed(f) =>
                    /\ Ran(f, "pt.GetSamplingPriority") <=> f.priority >= 0
                    /\ SamplersRan(f) <=> f.priority >= 0
                    /\ Ran(f, "PrioritySampler.Add") <=> (f.hasPriority /\ f.priority >= 0)
               /\ \A j, k \in 1..Len(l) :
                    /\ (l[j] = "pt.GetSamplingPriority" /\ l[k] \in PrepOps) => k < j
                    /\ (l[j] = "pt.GetSamplingPriority" /\ l[k] \in SamplerOps) => j < k)
    /\ [][\A w \in Workers :
            (wk[w].pc = "process" /\ wk'[w].pc # "process" /\ wk'[w].spans > 0) =>
               LET p == GetSamplingPriority(wk'[w].in.root)
                   stat == PriorityStat(p[1], p[2])
               IN Stats'["empty"][stat] = Stats["empty"][stat] + 1
      ]_vars

C23_Witness ==
    \E w \in Workers :
        /\ wk[w].pc = "done" /\ Allowed(wk[w])
        /\ wk[w].hasPriority /\ wk[w].priority = 1
        /\ Reads(wk[w]) = 2
        /\ Ran(wk[w], "PrioritySampler.Add")
        /\ Stats["empty"]["TracesPriority1"] = 1

\* ------------------------------------------------------------- blacklisted traces
\* A frame of Process on a non-empty trace whose root the Blacklister rejected.
Rejected(f) == f.spans > 0 /\ f.pc \notin {"idle", "process"} /\ ~f.in.allowed

\* C24: when the Blacklister rejects the root, Process adds 1 to the trace's
\* priority-class counter, 1 to TracesFiltered and the span count to SpansFiltered,
\* changes no other counter, and returns: nothing is obfuscated or annotated, no
\* sampler or event extractor is called, nothing is sent on spansOut or to the
\* Concentrator.
C24_BlacklistFrame ==
    /\ [](\A w \in Workers : Rejected(wk[w]) =>
            /\ wk[w].pc = "done"
            /\ wk[w].log = <<"GetSamplingPriority", "atomic.AddInt64(stat)",
                             "Blacklister.Allows", "TracesFiltered", "SpansFiltered">>
            /\ wk[w].root = wk[w].in.root
            /\ SampledSpansEmpty(wk[w].ss)
            /\ wk[w].refs = {"worker"}
            /\ \A k \in 1..Len(spansOut) : spansOut[k].id # wk[w].id
            /\ \A k \in 1..Len(concIn) : concIn[k].id # wk[w].id)
    /\ [][\A w \in Workers :
            (wk[w].pc = "process" /\ Rejected(wk'[w])) =>
               LET p == GetSamplingPriority(wk'[w].in.root) IN
               /\ Stats' = AddCounter(AddCounter(AddCounter(Stats,
                              "empty", PriorityStat(p[1], p[2]), 1),
                              "empty", "TracesFiltered", 1),
                              "empty", "SpansFiltered", wk[w].spans)
               /\ spansOut' = spansOut /\ concIn' = concIn
      ]_vars

C24_Witness ==
    \E w \in Workers :
        /\ Rejected(wk[w]) /\ wk[w].spans = 2
        /\ wk[w].hasPriority /\ wk[w].priority = 2
        /\ Stats["empty"]["TracesPriority2"] = 1
        /\ Stats["empty"]["TracesFiltered"] = 1
        /\ Stats["empty"]["SpansFiltered"] = 2

\* ------------------------------------------------------------- sends and the close of Out
\* C26: no processTraces goroutine sends on Receiver.Out after it was closed: Stop
\* closes Out only after server.Shutdown returned without error (no handler running)
\* and r.wg.Wait() returned (no processTraces goroutine running), it does not close Out
\* when Shutdown returned an error, and once Out is closed no handler or goroutine runs
\* or is started.
C26_NoSendOnClosedOut ==
    /\ [][\A r \in Reqs : (req[r].pc = "send" /\ req'[r].pc # "send") => ~sd.outClosed]_vars
    /\ [][(~sd.outClosed /\ sd'.outClosed) =>
             /\ sd.stop = "wg.Wait" /\ sd.server = "shutdown"
             /\ \A r \in Reqs : ~InHandler(r) /\ ~InGoroutine(r)
             /\ sd'.stop = "returned nil"
      ]_vars
    /\ [](sd.outClosed => \A r \in Reqs : ~InHandler(r) /\ ~InGoroutine(r))
    /\ [](sd.stop = "returned err" => ~sd.outClosed)

C26_Witness ==
    /\ sd.outClosed
    /\ req[1].pc = "done" /\ req[1].n > 0
    /\ Stats["client"]["SpansReceived"] > Stats["client"]["SpansDropped"]
    /\ Out # <<>>

\* ------------------------------------------------------------- counters and the flush
\* C27: the counters that Reset sets back to 0 are the ones the flush has accumulated
\* into accStats and published: no increment made by a handler or a processTraces
\* goroutine falls between Acc, Publish and Reset and is lost.
C27_NoIncrementLost ==
    [][(fl.pc = "Reset" /\ fl'.pc = "select") =>
          (fl.acc = Stats /\ fl.published = Stats)]_vars

\* ------------------------------------------------------------- listing containers
\* The fields of a returned container that identify it.
Ident(ret) == [j \in 1..Len(ret) |->
                 [ID |-> ret[j].ID, State |-> ret[j].State, Excluded |-> ret[j].Excluded]]
Unfilled(x) == ~x.cgroups /\ ~x.limits /\ ~x.cgMetrics /\ ~x.netMetrics

At(k) == k.cList[k.i].ID

\* C25: with CollectNetwork set and concurrent dockerContainers calls, the lookup of
\* networkMappings[id] and the insertion are one step under the mutex: one caller at a
\* time is between d.Lock() and d.Unlock(), what its lookup found still holds while it
\* is there, so an entry is inserted only by a caller that found it absent and never
\* while it is cached; a failed Inspect releases the mutex, inserts nothing and leaves
\* the container out of the result.
C25_LookupAndInsertAtomic ==
    /\ [](\A c \in Callers :
            LET k == dk.call[c] IN
            k.pc = "locked" =>
                /\ dk.lock = c
                /\ k.absent <=> At(k) \notin dk.networkMappings)
    /\ [](dk.lock # 0 => dk.call[dk.lock].pc = "locked")
    /\ [][\A id \in ContainerIDs :
            (id \in dk'.networkMappings /\ id \notin dk.networkMappings) =>
               \E c \in Callers :
                  /\ dk.call[c].pc = "locked" /\ dk.call[c].absent /\ At(dk.call[c]) = id
                  /\ dk'.call[c].pc = "build" /\ dk'.lock = 0
                  /\ dk'.networkMappings = dk.networkMappings \cup {id}
      ]_vars
    /\ [][\A c \in Callers :
            (dk.call[c].pc = "locked" /\ dk'.call[c].pc = "loop") =>
               /\ dk.call[c].absent
               /\ dk'.lock = 0
               /\ dk'.networkMappings = dk.networkMappings
               /\ dk'.call[c].ret = dk.call[c].ret
               /\ dk'.call[c].i = dk.call[c].i + 1
      ]_vars

C25_Witness ==
    \E c \in Callers, d \in Callers :
        /\ c # d
        /\ dk.call[c].pc = "locked" /\ dk.call[c].absent
        /\ NeedsInspect(dk.call[d]) /\ At(dk.call[d]) = At(dk.call[c])
        /\ dk.call[c].i = 2 /\ dk.call[c].ret = <<>>
        /\ dk.call[d].i = 2 /\ Len(dk.call[d].ret) = 1

\* A dockerContainers call is at its test on lastInvalidate, with the list it got.
AtCleanupTest == \E c \in Callers : dk.call[c].pc = "invalidate"

\* C28: when dockerContainers calls keep getting the container list, a container that
\* has left that list for good has its networkMappings entry removed in the end, as the
\* clock advances; and a run of cleanupCaches leaves in networkMappings only ids of the
\* list it was given.
C28_DeadEntriesRemoved ==
    /\ \A id \in ContainerIDs :
          ([]<>AtCleanupTest /\ <>[](dk.world[id] # ContainerRunningState))
             => <>[](id \notin dk.networkMappings)
    /\ [][\A c \in Callers :
            (dk.call[c].pc = "invalidate" /\ dk'.call[c].pc # "invalidate" /\ CleanupDue)
               => dk'.networkMappings \subseteq IDsOf(dk.call[c].cList)
      ]_vars

====
